---- MODULE Spec2Model ----
(***************************************************************************)
(* askai: the execution planner (executor/planner.rs), the batch executor  *)
(* (executor/batch.rs) and the response cache (cache/response.rs,          *)
(* cache/prewarming.rs) and the daemon (daemon/) as state machines.         *)
(*                                                                         *)
(* SpecBatch : a plan is built (add_task, add_dependency,                  *)
(*             disable_parallelization), then either levelled by           *)
(*             get_parallel_groups or run by BatchExecutor::execute.       *)
(* SpecCache : one ResponseCache instance and its snapshot file.           *)
(* SpecDaemon: the daemon process, DaemonServer::start, the handler of     *)
(*             each connection and the SessionPool they share              *)
(*             (daemon/server.rs, daemon/session.rs, daemon/protocol.rs).  *)
(* SpecDaemonLive: SpecDaemon with the runtime's fairness.                 *)
(* SpecPool  : one SessionPool called by one task at a time                *)
(*             (daemon/session.rs), with the clock running.                *)
(* SpecSnapshot: one ResponseCache written to the snapshot file by         *)
(*             save_to_disk or Drop and loaded into a fresh instance.      *)
(* SpecProtocol: one DaemonRequest or DaemonResponse value written by      *)
(*             to_json and read back by from_json (daemon/protocol.rs).    *)
(***************************************************************************)
EXTENDS Integers, Sequences, FiniteSets, TLC

\* ------------------------------------------------------------------------
\* Bounds
\* ------------------------------------------------------------------------
\* Largest number of tasks pushed into a plan.
MaxTasks == 3
\* Largest number of add_dependency calls on a plan.
MaxDeps == 2

\* Largest configured max_entries (ResponseCache::new).
MaxEntriesBound == 2
\* Largest configured TTL, in seconds.
MaxTtl == 1
\* Clock readings per second: timestamps are finer than the TTL's seconds.
TicksPerSecond == 2
\* Last clock reading.
MaxClock == 2
\* Largest sum of the hit_counts in the cache.
MaxHits == 2
\* Longest string in a protocol value, in characters.
MaxStr == 2

\* BatchExecutor::new(1) (the sequential tests), BatchExecutor::new(2) (the
\* parallel test) and the CLI default cli.max_parallel.unwrap_or(4).
DefaultMaxParallel == 4
TestMaxParallel == 2
MaxParallelChoices == {1, TestMaxParallel, DefaultMaxParallel}

VARIABLES
    \* ExecutionPlan
    tasks,            \* Vec<Task>: the task ids, in list order
    can_parallelize,  \* bool
    dependencies,     \* HashMap<usize, Vec<usize>> as a set of <<task_id, depends_on>>
    \* caller / BatchExecutor::execute
    mode,             \* "build" | "plan" | "parallel" | "sequential"
    pc,               \* position inside the running operation
    max_parallel,     \* BatchExecutor.max_parallel
    groups,           \* the Vec<Vec<&Task>> returned by get_parallel_groups
    group_idx,        \* index of the group (parallel) or task (sequential) being run
    status,           \* task id -> "pending" | "running" | "ok" | "failed"
    all_results,      \* Vec<TaskResult>: [task_id, success]
    batch_result,     \* the BatchResult returned, <<>> until execute returns
    \* ResponseCache
    cache_state,      \* "down" (not constructed) | "up" | "exited"
    cache,            \* HashMap<String, CacheEntry>: key -> entry
    ttl,              \* Duration, in seconds
    max_entries,      \* usize
    cache_file,       \* ~/.askai-cache.json: [kind, content]
    now,              \* chrono::Utc::now(), in clock ticks
    last,             \* the last call on the cache, with what it returned
    set_log,          \* keys of the first sets (at most three) made in a row on an empty cache
    \* DaemonServer / SessionPool / the process around them
    server_pc,        \* position of DaemonServer::start and of main
    running,          \* Arc<RwLock<bool>>
    socket_file,      \* ~/.askai-daemon.sock exists
    pid_file,         \* ~/.askai-daemon.pid exists
    backlog,          \* connections made by clients and not yet accepted
    conns,            \* every connection made: request line, handler position, lines written
    providers,        \* SessionPool.providers: the names resident
    constructed,      \* provider name -> number of ProviderFactory::create successes
    registry_lock,    \* writer of SessionPool.providers, NoHolder when free
    cache_lock,       \* writer of SessionPool.cache, NoHolder when free
    pw_pc,            \* position of a prewarm_provider call
    pool_log,         \* the calls one task made on the SessionPool, with what they returned
    wire              \* one protocol value on its way through to_json and from_json

batchVars == <<tasks, can_parallelize, dependencies, mode, pc, max_parallel,
               groups, group_idx, status, all_results, batch_result>>

cacheVars == <<cache_state, cache, ttl, max_entries, cache_file, now, last, set_log>>

cacheConfigVars == <<cache_state, ttl, max_entries, cache_file, now, last, set_log>>

daemonVars == <<server_pc, running, socket_file, pid_file, backlog, conns,
                providers, constructed, registry_lock, cache_lock, pw_pc,
                pool_log, wire>>

vars == <<batchVars, cacheVars, daemonVars>>

\* ------------------------------------------------------------------------
\* Helpers
\* ------------------------------------------------------------------------
Range(s) == {s[i] : i \in 1..Len(s)}

RECURSIVE Flatten(_)
Flatten(ss) == IF ss = <<>> THEN <<>> ELSE Head(ss) \o Flatten(Tail(ss))

\* How many positions of sequence s hold x.
Count(s, x) == Cardinality({i \in 1..Len(s) : s[i] = x})

\* ------------------------------------------------------------------------
\* ExecutionPlan (planner.rs)
\* ------------------------------------------------------------------------
\* Ids a dependency may name: every id a task can get, and one id that is
\* never a task (add_dependency validates neither argument).
DepIds == 0..MaxTasks

Plan == [tasks |-> tasks, can_parallelize |-> can_parallelize,
         dependencies |-> dependencies]

\* self.dependencies.get(&task.id): the ids recorded for the task.
DepsOf(plan, id) == {e[2] : e \in {x \in plan.dependencies : x[1] = id}}

\* None => true; Some(dep_ids) => dep_ids.iter().all(|id| completed.contains(id))
can_run_any(plan, completed, id) ==
    \/ DepsOf(plan, id) = {}
    \/ \E d \in DepsOf(plan, id) : d \in completed

can_run(plan, completed, id) ==
    \A d \in DepsOf(plan, id) : d \in completed

\* One pass of the for loop: the not-yet-completed tasks that can run, in
\* list order.
CurrentGroupNoSkip(plan, completed) ==
    SelectSeq(plan.tasks, LAMBDA id : can_run(plan, completed, id))

CurrentGroup(plan, completed) ==
    SelectSeq(plan.tasks,
              LAMBDA id : id \notin completed /\ can_run(plan, completed, id))

\* The while loop of get_parallel_groups.
LevelLoopOnce(plan, grps, completed) ==
    IF Cardinality(completed) >= Len(plan.tasks) THEN grps
    ELSE LET current_group == CurrentGroup(plan, completed)
         IN  IF current_group # <<>>
             THEN Append(grps, current_group)
             ELSE grps

RECURSIVE LevelLoop(_, _, _)
LevelLoop(plan, grps, completed) ==
    IF Cardinality(completed) >= Len(plan.tasks) THEN grps
    ELSE LET current_group == CurrentGroup(plan, completed)
         IN  IF current_group # <<>>
             THEN LevelLoop(plan, Append(grps, current_group),
                            completed \cup Range(current_group))
             ELSE grps

get_parallel_groups_levels(plan) == LevelLoop(plan, <<>>, {})

get_parallel_groups_flat(plan) == <<plan.tasks>>

get_parallel_groups(plan) ==
    IF ~plan.can_parallelize \/ plan.tasks = <<>>
    THEN <<plan.tasks>>
    ELSE LevelLoop(plan, <<>>, {})

task_count(plan) == Len(plan.tasks)

\* ------------------------------------------------------------------------
\* Building a plan
\* ------------------------------------------------------------------------
NoResult == <<>>

InitBatch ==
    /\ tasks = <<>>
    /\ can_parallelize = TRUE
    /\ dependencies = {}
    /\ mode = "build"
    /\ pc = "idle"
    /\ max_parallel = 0
    /\ groups = <<>>
    /\ group_idx = 0
    /\ status = [i \in {} |-> "pending"]
    /\ all_results = <<>>
    /\ batch_result = NoResult

\* plan.add_task(Task::new(id, ..)) with id the position, as enumerate()
\* numbers the tasks in create_parallel, create_batch and main.
add_task ==
    /\ mode = "build"
    /\ Len(tasks) < MaxTasks
    /\ tasks' = Append(tasks, Len(tasks))
    /\ UNCHANGED <<can_parallelize, dependencies, mode, pc, max_parallel,
                   groups, group_idx, status, all_results, batch_result>>
    /\ UNCHANGED <<cacheVars, daemonVars>>

add_dependency(task_id, depends_on) ==
    /\ mode = "build"
    /\ Cardinality(dependencies) < MaxDeps
    /\ <<task_id, depends_on>> \notin dependencies
    /\ dependencies' = dependencies \cup {<<task_id, depends_on>>}
    /\ UNCHANGED <<tasks, can_parallelize, mode, pc, max_parallel,
                   groups, group_idx, status, all_results, batch_result>>
    /\ UNCHANGED <<cacheVars, daemonVars>>

disable_parallelization ==
    /\ mode = "build"
    /\ can_parallelize
    /\ can_parallelize' = FALSE
    /\ UNCHANGED <<tasks, dependencies, mode, pc, max_parallel,
                   groups, group_idx, status, all_results, batch_result>>
    /\ UNCHANGED <<cacheVars, daemonVars>>

\* A caller that only asks for the schedule (the planner tests).
call_get_parallel_groups ==
    /\ mode = "build"
    /\ mode' = "plan"
    /\ pc' = "done"
    /\ groups' = get_parallel_groups(Plan)
    /\ UNCHANGED <<tasks, can_parallelize, dependencies, max_parallel,
                   group_idx, status, all_results, batch_result>>
    /\ UNCHANGED <<cacheVars, daemonVars>>

\* ------------------------------------------------------------------------
\* BatchExecutor::execute (batch.rs)
\* ------------------------------------------------------------------------
TaskResult(id, ok) == [task_id |-> id, success |-> ok]

\* execute, lines 101-118: total is taken, the path is chosen and, on the
\* parallel path, the groups are computed.
execute_begin(mp) ==
    /\ mode = "build"
    /\ max_parallel' = mp
    /\ status' = [i \in Range(tasks) |-> "pending"]
    /\ all_results' = <<>>
    /\ group_idx' = 1
    /\ IF can_parallelize /\ mp > 1
       THEN /\ mode' = "parallel"
            /\ groups' = get_parallel_groups(Plan)
            /\ pc' = "spawn"
       ELSE /\ mode' = "sequential"
            /\ groups' = groups
            /\ pc' = "next"
    /\ UNCHANGED <<tasks, can_parallelize, dependencies, batch_result>>
    /\ UNCHANGED <<cacheVars, daemonVars>>

\* execute_parallel_with_progress, lines 218-261: every task of the group is
\* handed to tokio::spawn before anything is awaited.
spawn_group_capped ==
    /\ mode = "parallel" /\ pc = "spawn"
    /\ group_idx <= Len(groups)
    /\ status' = [i \in DOMAIN status |->
                    IF \E k \in 1..Len(groups[group_idx]) :
                          k <= max_parallel /\ groups[group_idx][k] = i
                    THEN "running" ELSE status[i]]
    /\ pc' = "join"
    /\ UNCHANGED <<tasks, can_parallelize, dependencies, mode, max_parallel,
                   groups, group_idx, all_results, batch_result>>
    /\ UNCHANGED <<cacheVars, daemonVars>>

spawn_group ==
    /\ mode = "parallel" /\ pc = "spawn"
    /\ group_idx <= Len(groups)
    /\ status' = [i \in DOMAIN status |->
                    IF i \in Range(groups[group_idx]) THEN "running" ELSE status[i]]
    /\ pc' = "join"
    /\ UNCHANGED <<tasks, can_parallelize, dependencies, mode, max_parallel,
                   groups, group_idx, all_results, batch_result>>
    /\ UNCHANGED <<cacheVars, daemonVars>>

\* The spawned future, lines 233-259: runner.execute returns Ok or Err.
task_finish(id, ok) ==
    /\ mode = "parallel" /\ pc = "join"
    /\ status[id] = "running"
    /\ status' = [status EXCEPT ![id] = IF ok THEN "ok" ELSE "failed"]
    /\ UNCHANGED <<tasks, can_parallelize, dependencies, mode, pc, max_parallel,
                   groups, group_idx, all_results, batch_result>>
    /\ UNCHANGED <<cacheVars, daemonVars>>

\* join_all(handles).await resolves once every handle has resolved.
JoinReadyFirst(grp) ==
    IF grp = <<>> THEN TRUE ELSE status[grp[1]] \in {"ok", "failed"}

JoinReady(grp) ==
    \A i \in 1..Len(grp) : status[grp[i]] \in {"ok", "failed"}

\* Lines 264-269 and 116: the results, in handle order, extend all_results.
join_group ==
    /\ mode = "parallel" /\ pc = "join"
    /\ JoinReady(groups[group_idx])
    /\ all_results' = all_results \o
          [i \in 1..Len(groups[group_idx]) |->
              TaskResult(groups[group_idx][i],
                         status[groups[group_idx][i]] = "ok")]
    /\ group_idx' = group_idx + 1
    /\ pc' = "spawn"
    /\ UNCHANGED <<tasks, can_parallelize, dependencies, mode, max_parallel,
                   groups, status, batch_result>>
    /\ UNCHANGED <<cacheVars, daemonVars>>

\* Sequential path, lines 120-123: execute_task_with_progress(task).await.
seq_start_deps_first ==
    /\ mode = "sequential" /\ pc = "next"
    /\ group_idx <= Len(tasks)
    /\ LET finished == {i \in DOMAIN status : status[i] \in {"ok", "failed"}}
           ready == SelectSeq(tasks, LAMBDA id : status[id] = "pending"
                                                 /\ can_run(Plan, finished, id))
       IN  /\ ready # <<>>
           /\ status' = [status EXCEPT ![ready[1]] = "running"]
    /\ pc' = "await"
    /\ UNCHANGED <<tasks, can_parallelize, dependencies, mode, max_parallel,
                   groups, group_idx, all_results, batch_result>>
    /\ UNCHANGED <<cacheVars, daemonVars>>

seq_start_all ==
    /\ mode = "sequential" /\ pc = "next"
    /\ group_idx <= Len(tasks)
    /\ status' = [i \in DOMAIN status |->
                    IF status[i] = "pending" THEN "running" ELSE status[i]]
    /\ pc' = "await"
    /\ UNCHANGED <<tasks, can_parallelize, dependencies, mode, max_parallel,
                   groups, group_idx, all_results, batch_result>>
    /\ UNCHANGED <<cacheVars, daemonVars>>

seq_start ==
    /\ mode = "sequential" /\ pc = "next"
    /\ group_idx <= Len(tasks)
    /\ status' = [status EXCEPT ![tasks[group_idx]] = "running"]
    /\ pc' = "await"
    /\ UNCHANGED <<tasks, can_parallelize, dependencies, mode, max_parallel,
                   groups, group_idx, all_results, batch_result>>
    /\ UNCHANGED <<cacheVars, daemonVars>>

seq_finish(ok) ==
    /\ mode = "sequential" /\ pc = "await"
    /\ status' = [status EXCEPT ![tasks[group_idx]] = IF ok THEN "ok" ELSE "failed"]
    /\ all_results' = Append(all_results, TaskResult(tasks[group_idx], ok))
    /\ group_idx' = group_idx + 1
    /\ pc' = "next"
    /\ UNCHANGED <<tasks, can_parallelize, dependencies, mode, max_parallel,
                   groups, batch_result>>
    /\ UNCHANGED <<cacheVars, daemonVars>>

\* Lines 126-140.
success_count(results) == Cardinality({i \in 1..Len(results) : results[i].success})
failure_count(results) == Cardinality({i \in 1..Len(results) : ~results[i].success})

BatchResult(total, results) ==
    [total |-> total,
     success_count |-> success_count(results),
     failure_count |-> failure_count(results),
     task_results |-> results]

\* BatchResult::all_succeeded
all_succeeded(r) == r.failure_count = 0

\* BatchResult::failed_tasks
failed_tasks_all(r) == r.task_results

failed_tasks(r) == SelectSeq(r.task_results, LAMBDA x : ~x.success)

\* BatchResult::success_rate: 0.0 for an empty batch, else
\* success_count / total * 100.0, kept as the fraction <<numerator,
\* denominator>>.
success_rate(r) ==
    IF r.total = 0 THEN <<0, 1>> ELSE <<r.success_count * 100, r.total>>

execute_return ==
    /\ \/ mode = "parallel" /\ pc = "spawn" /\ group_idx > Len(groups)
       \/ mode = "sequential" /\ pc = "next" /\ group_idx > Len(tasks)
    /\ batch_result' = BatchResult(task_count(Plan), all_results)
    /\ pc' = "done"
    /\ UNCHANGED <<tasks, can_parallelize, dependencies, mode, max_parallel,
                   groups, group_idx, status, all_results>>
    /\ UNCHANGED <<cacheVars, daemonVars>>

NextBatch ==
    \/ add_task
    \/ \E t \in 0..(MaxTasks - 1), d \in DepIds : add_dependency(t, d)
    \/ disable_parallelization
    \/ call_get_parallel_groups
    \/ \E mp \in MaxParallelChoices : execute_begin(mp)
    \/ spawn_group
    \/ \E id \in Range(tasks), ok \in BOOLEAN : task_finish(id, ok)
    \/ join_group
    \/ seq_start
    \/ \E ok \in BOOLEAN : seq_finish(ok)
    \/ execute_return

\* ------------------------------------------------------------------------
\* ResponseCache (cache/response.rs, cache/prewarming.rs)
\* ------------------------------------------------------------------------
\* Inputs.  "|" is the separator byte cache_key puts between prompt and
\* context.
Prompts == {"a", "a|"}
Contexts == {"b", "|b"}
Commands == {"c1", "c2"}

\* The table of prewarming.rs, cut down to two prompts.
COMMON_PROMPTS == << <<"a", "c1">>, <<"a|", "c2">> >>

None == "None"
EmptyCache == [k \in {} |-> None]

\* cache_key: SHA-256 over prompt, b"|", context, hex-encoded.  The digest is
\* taken as injective, so a key is identified with the bytes that were
\* hashed.
cache_key(prompt, context) == prompt \o "|" \o context

Keys == {cache_key(p, c) : p \in Prompts, c \in Contexts}

CacheEntry(command, timestamp) ==
    [command |-> command, timestamp |-> timestamp, hit_count |-> 0]

RemoveAll(c, key) == [k \in {} |-> c[k]]
Remove(c, key) == [k \in DOMAIN c \ {key} |-> c[k]]

\* HashMap::insert: an existing entry under the key is replaced.
InsertIfAbsent(c, key, entry) ==
    [k \in DOMAIN c \cup {key} |-> IF k \in DOMAIN c THEN c[k] ELSE entry]

Insert(c, key, entry) ==
    [k \in DOMAIN c \cup {key} |-> IF k = key THEN entry ELSE c[k]]

\* age.num_seconds(): whole seconds of a tick count.
num_seconds(age) == age \div TicksPerSecond

\* age.num_seconds() < self.ttl.as_secs() as i64
within_ttl_inclusive(entry, t, ttl_seconds) ==
    num_seconds(t - entry.timestamp) <= ttl_seconds

within_ttl(entry, t, ttl_seconds) ==
    num_seconds(t - entry.timestamp) < ttl_seconds

\* ResponseCache::get at clock reading t: the cache afterwards, the value
\* returned and the keys removed.
get_uncounted(c, ttl_seconds, prompt, context, t) ==
    LET key == cache_key(prompt, context)
    IN  IF key \in DOMAIN c
        THEN IF within_ttl(c[key], t, ttl_seconds)
             THEN [cache |-> c, ret |-> c[key].command, removed |-> {}]
             ELSE [cache |-> Remove(c, key), ret |-> None, removed |-> {key}]
        ELSE [cache |-> c, ret |-> None, removed |-> {}]

get(c, ttl_seconds, prompt, context, t) ==
    LET key == cache_key(prompt, context)
    IN  IF key \in DOMAIN c
        THEN IF within_ttl(c[key], t, ttl_seconds)
             THEN [cache |-> [c EXCEPT ![key].hit_count = @ + 1],
                   ret |-> c[key].command, removed |-> {}]
             ELSE [cache |-> Remove(c, key), ret |-> None, removed |-> {key}]
        ELSE [cache |-> c, ret |-> None, removed |-> {}]

\* evict_oldest: min_by_key over the map's iteration order, which is
\* unspecified; among entries of equal timestamp any one may be removed.
OldestKeys(c) ==
    {k \in DOMAIN c : \A j \in DOMAIN c : c[k].timestamp <= c[j].timestamp}

evict_oldest(c) ==
    IF DOMAIN c = {}
    THEN {[cache |-> c, removed |-> {}]}
    ELSE {[cache |-> Remove(c, k), removed |-> {k}] : k \in OldestKeys(c)}

\* ResponseCache::set at clock reading t: the possible outcomes.
set_in_place(c, max, prompt, context, command, t) ==
    LET key == cache_key(prompt, context)
        evicted == IF Cardinality(DOMAIN c) >= max /\ key \notin DOMAIN c
                   THEN evict_oldest(c)
                   ELSE {[cache |-> c, removed |-> {}]}
    IN  {[cache |-> Insert(e.cache, key, CacheEntry(command, t)),
          removed |-> e.removed] : e \in evicted}

set_evict_only(c, max, prompt, context, command, t) ==
    IF Cardinality(DOMAIN c) >= max THEN evict_oldest(c)
    ELSE {[cache |-> c, removed |-> {}]}
set(c, max, prompt, context, command, t) ==
    LET key == cache_key(prompt, context)
        evicted == IF Cardinality(DOMAIN c) >= max
                   THEN evict_oldest(c)
                   ELSE {[cache |-> c, removed |-> {}]}
    IN  {[cache |-> Insert(e.cache, key, CacheEntry(command, t)),
          removed |-> e.removed] : e \in evicted}

\* One iteration of prewarm's loop from each state of S.
prewarm_step_count_all(S, ttl_seconds, max, i, context, t) ==
    UNION {
        LET g == get(s.cache, ttl_seconds, COMMON_PROMPTS[i][1], context, t)
        IN  IF g.ret = None
            THEN {[cache |-> o.cache, count |-> s.count + 1] :
                     o \in set(g.cache, max, COMMON_PROMPTS[i][1], context,
                               COMMON_PROMPTS[i][2], t)}
            ELSE {[cache |-> g.cache, count |-> s.count + 1]}
        : s \in S}

prewarm_step(S, ttl_seconds, max, i, context, t) ==
    UNION {
        LET g == get(s.cache, ttl_seconds, COMMON_PROMPTS[i][1], context, t)
        IN  IF g.ret = None
            THEN {[cache |-> o.cache, count |-> s.count + 1] :
                     o \in set(g.cache, max, COMMON_PROMPTS[i][1], context,
                               COMMON_PROMPTS[i][2], t)}
            ELSE {[cache |-> g.cache, count |-> s.count]}
        : s \in S}

\* ResponseCache::prewarm: the possible [cache, count] outcomes.
RECURSIVE prewarm_from(_, _, _, _, _, _)
prewarm_from(S, ttl_seconds, max, i, context, t) ==
    IF i > Len(COMMON_PROMPTS) THEN S
    ELSE prewarm_from(prewarm_step(S, ttl_seconds, max, i, context, t),
                      ttl_seconds, max, i + 1, context, t)

prewarm(c, ttl_seconds, max, context, t) ==
    prewarm_from({[cache |-> c, count |-> 0]}, ttl_seconds, max, 1, context, t)

\* serde ts_seconds: a snapshot keeps whole seconds of each timestamp.
to_snapshot_without_hits(c) ==
    [k \in DOMAIN c |->
        [c[k] EXCEPT !.timestamp = num_seconds(@) * TicksPerSecond, !.hit_count = 0]]

to_snapshot(c) ==
    [k \in DOMAIN c |->
        [c[k] EXCEPT !.timestamp = num_seconds(@) * TicksPerSecond]]

\* self.cache.values().map(|e| e.hit_count).sum()
RECURSIVE sum_hit_count(_, _)
sum_hit_count(c, keys) ==
    IF keys = {} THEN 0
    ELSE LET k == CHOOSE x \in keys : TRUE
         IN  c[k].hit_count + sum_hit_count(c, keys \ {k})

\* stats()
stats(c, max, ttl_seconds) ==
    [total_entries |-> Cardinality(DOMAIN c),
     total_hits |-> sum_hit_count(c, DOMAIN c),
     max_entries |-> max,
     ttl_seconds |-> ttl_seconds]

\* The snapshot file as an earlier run may have left it: absent, there but
\* not readable, cut short after its first entry (no longer JSON), or a map
\* of three entries written at second 0.
SnapshotOf(keys) == [k \in keys |-> CacheEntry("c1", 0)]
InitialFiles ==
    {[kind |-> "missing", content |-> EmptyCache],
     [kind |-> "unreadable", content |-> SnapshotOf({"a|b"})],
     [kind |-> "corrupt", content |-> SnapshotOf({"a|b"})]}
    \cup {[kind |-> "json", content |-> SnapshotOf(ks)] :
             ks \in {{"a|b", "a||b", "a|||b"}}}

NoCall == [op |-> "none", prompt |-> "", context |-> "", command |-> "",
           ret |-> None, count |-> 0, removed |-> {}]

Call(op, prompt, context, command, ret, count, removed) ==
    [op |-> op, prompt |-> prompt, context |-> context, command |-> command,
     ret |-> ret, count |-> count, removed |-> removed]

\* The cache is not constructed and nothing touches it (SpecBatch).
CacheIdle ==
    /\ cache_state = "down"
    /\ cache = EmptyCache
    /\ ttl = 1
    /\ max_entries = 1
    /\ cache_file = [kind |-> "missing", content |-> EmptyCache]
    /\ now = 0
    /\ last = NoCall
    /\ set_log = <<>>

InitCache ==
    /\ cache_state = "down"
    /\ cache = EmptyCache
    /\ ttl = 1
    /\ max_entries = 1
    /\ cache_file \in InitialFiles
    /\ now = 0
    /\ last = NoCall
    /\ set_log = <<>>

\* load_from_disk on the map c: a missing file is skipped with Ok; a file
\* that cannot be read or parsed returns Err through `?` before the map is
\* assigned; otherwise the map is replaced by the file's whole content.
load_from_disk_lenient(c, file) ==
    IF file.kind = "missing" THEN [ok |-> TRUE, cache |-> c]
    ELSE [ok |-> TRUE, cache |-> file.content]

load_from_disk(c, file) ==
    IF file.kind = "missing" THEN [ok |-> TRUE, cache |-> c]
    ELSE IF file.kind = "json" THEN [ok |-> TRUE, cache |-> file.content]
    ELSE [ok |-> FALSE, cache |-> c]

\* ResponseCache::new: an empty map, then load_from_disk, whose Err is only
\* warned about; Ok(cache) is returned either way.
new(ttl_seconds, max) ==
    /\ cache_state = "down"
    /\ cache_state' = "up"
    /\ ttl' = ttl_seconds
    /\ max_entries' = max
    /\ cache' = load_from_disk(EmptyCache, cache_file).cache
    /\ last' = Call("new", "", "", "", "Ok", 0, {})
    /\ set_log' = <<>>
    /\ UNCHANGED <<cache_file, now>>
    /\ UNCHANGED <<batchVars, daemonVars>>

cache_get(prompt, context) ==
    /\ cache_state = "up"
    /\ LET g == get(cache, ttl, prompt, context, now)
       IN  /\ sum_hit_count(g.cache, DOMAIN g.cache) <= MaxHits
           /\ cache' = g.cache
           /\ last' = Call("get", prompt, context, "", g.ret, 0, g.removed)
    /\ set_log' = <<>>
    /\ UNCHANGED <<cache_state, ttl, max_entries, cache_file, now>>
    /\ UNCHANGED <<batchVars, daemonVars>>

cache_set(prompt, context, command) ==
    /\ cache_state = "up"
    /\ \E o \in set(cache, max_entries, prompt, context, command, now) :
          /\ cache' = o.cache
          /\ last' = Call("set", prompt, context, command, None, 0, o.removed)
    /\ set_log' = IF cache = EmptyCache
                  THEN <<cache_key(prompt, context)>>
                  ELSE IF set_log # <<>> /\ Len(set_log) < 3
                       THEN Append(set_log, cache_key(prompt, context))
                       ELSE <<>>
    /\ UNCHANGED <<cache_state, ttl, max_entries, cache_file, now>>
    /\ UNCHANGED <<batchVars, daemonVars>>

cache_prewarm(context) ==
    /\ cache_state = "up"
    /\ \E o \in prewarm(cache, ttl, max_entries, context, now) :
          /\ sum_hit_count(o.cache, DOMAIN o.cache) <= MaxHits
          /\ cache' = o.cache
          /\ last' = Call("prewarm", "", context, "", None, o.count,
                          DOMAIN cache \ DOMAIN o.cache)
    /\ set_log' = <<>>
    /\ UNCHANGED <<cache_state, ttl, max_entries, cache_file, now>>
    /\ UNCHANGED <<batchVars, daemonVars>>

\* clear: the map is emptied and the file, if there, removed.
cache_clear_keep_file ==
    /\ cache_state = "up"
    /\ cache' = EmptyCache
    /\ last' = Call("clear", "", "", "", None, 0, DOMAIN cache)
    /\ set_log' = <<>>
    /\ UNCHANGED <<cache_state, ttl, max_entries, now, cache_file>>
    /\ UNCHANGED <<batchVars, daemonVars>>

cache_clear ==
    /\ cache_state = "up"
    /\ cache' = EmptyCache
    /\ cache_file' = [kind |-> "missing", content |-> EmptyCache]
    /\ last' = Call("clear", "", "", "", None, 0, DOMAIN cache)
    /\ set_log' = <<>>
    /\ UNCHANGED <<cache_state, ttl, max_entries, now>>
    /\ UNCHANGED <<batchVars, daemonVars>>

\* save_to_disk as the last act of the process (main.rs, and Drop).
save_and_exit ==
    /\ cache_state = "up"
    /\ cache_state' = "exited"
    /\ cache_file' = [kind |-> "json", content |-> to_snapshot(cache)]
    /\ last' = Call("save", "", "", "", None, 0, {})
    /\ UNCHANGED <<cache, ttl, max_entries, now, set_log>>
    /\ UNCHANGED <<batchVars, daemonVars>>

\* Time passes between calls; the last call is no longer the latest event.
tick ==
    /\ cache_state = "up"
    /\ now < MaxClock
    /\ now' = now + 1
    /\ last' = NoCall
    /\ UNCHANGED <<cache_state, cache, ttl, max_entries, cache_file, set_log>>
    /\ UNCHANGED <<batchVars, daemonVars>>

NextCache ==
    \/ \E t \in 1..MaxTtl, m \in 1..MaxEntriesBound : new(t, m)
    \/ \E p \in Prompts, c \in Contexts : cache_get(p, c)
    \/ \E p \in Prompts, c \in Contexts, cmd \in Commands : cache_set(p, c, cmd)
    \/ \E c \in Contexts : cache_prewarm(c)
    \/ cache_clear
    \/ save_and_exit
    \/ tick

\* ------------------------------------------------------------------------
\* Daemon (daemon/protocol.rs, daemon/session.rs, daemon/server.rs)
\* ------------------------------------------------------------------------
\* Largest number of connections clients make to the socket.
MaxConns == 2

\* The names ProviderFactory::create knows (two of the three), and the names
\* a request may carry: "gpt" is not a provider.
ProviderNames == {"gemini", "claude"}
RequestedProviders == ProviderNames \cup {"gpt"}
\* What a provider call returns on success.
GeneratedCommands == {"c1", "c2"}
\* start_daemon pre-warms this provider.
PrewarmedProvider == "gemini"
\* The context a client sends with its prompt.
DaemonContext == "b"
\* What ~/.askai-cache.json holds when the daemon starts: an earlier run
\* left the command of the first prompt under DaemonContext.
DaemonSnapshot == SnapshotOf({cache_key("a", DaemonContext)})

\* A tokio RwLock with no writer; a writer is a connection number or
\* PrewarmTask.
NoHolder == 0
PrewarmTask == MaxConns + 1

\* No protocol value is being converted.
NoWire == [pc |-> "none"]

\* One line on the stream.  kind "json" is a JSON object with the tag
\* `type`; "garbage" is text that is not JSON; "empty" is the empty line
\* read_line leaves when the peer shuts its side down without writing.
Line(kind, type, prompt, context, provider) ==
    [kind |-> kind, type |-> type, prompt |-> prompt, context |-> context,
     provider |-> provider]

GenerateCommand(prompt, context, provider) ==
    Line("json", "GenerateCommand", prompt, context, provider)
Ping == Line("json", "Ping", "", "", "")
Shutdown == Line("json", "Shutdown", "", "", "")

RequestLines ==
    {GenerateCommand(p, DaemonContext, n) : p \in Prompts, n \in RequestedProviders}
    \cup {Ping, Shutdown}
    \cup {Line("json", "Restart", "", "", ""), Line("garbage", "", "", "", ""),
          Line("empty", "", "", "", "")}

\* DaemonRequest::from_json: serde_json::from_str on the internally tagged
\* enum; Err for text that is not JSON and for a tag that is no variant.
from_json(line) ==
    IF line.kind = "json" /\ line.type \in {"GenerateCommand", "Ping", "Shutdown"}
    THEN [ok |-> TRUE, request |-> line]
    ELSE [ok |-> FALSE, request |-> line]

\* DaemonResponse
Response(tag, command, from_cache, session_count, message) ==
    [status |-> tag, command |-> command, from_cache |-> from_cache,
     session_count |-> session_count, message |-> message]
NoResponse == Response("none", "", FALSE, 0, "")
Success(command, from_cache) == Response("Success", command, from_cache, 0, "")
PongNone(session_count) == Response("Pong", "", FALSE, 0, "")
Pong(session_count) == Response("Pong", "", FALSE, session_count, "")
Error(message) == Response("Error", "", FALSE, 0, message)
ShuttingDown == Response("ShuttingDown", "", FALSE, 0, "")

\* The Result<(String, bool)> of SessionPool::generate_command.
OkNotCached(command, from_cache) ==
    [ok |-> TRUE, command |-> command, from_cache |-> FALSE, message |-> ""]
Ok(command, from_cache) ==
    [ok |-> TRUE, command |-> command, from_cache |-> from_cache, message |-> ""]
Err(message) ==
    [ok |-> FALSE, command |-> "", from_cache |-> FALSE, message |-> message]

\* handle_client, the GenerateCommand arm: Ok becomes Success, Err becomes
\* Error{message}.
generate_response_drop(result) ==
    IF result.ok THEN Success(result.command, result.from_cache)
    ELSE NoResponse

generate_response(result) ==
    IF result.ok THEN Success(result.command, result.from_cache)
    ELSE Error(result.message)

\* ProviderFactory::create: Err for a name that is no provider.
create(provider_name) == provider_name \in ProviderNames

\* providers.write().await resolves only when nobody holds the lock.
CanWriteUnguarded(lock) == TRUE

CanWrite(lock) == lock = NoHolder

\* providers.read().await resolves only when no writer holds the lock.
CanRead(lock) == lock = NoHolder

\* The cache guard of generate_command step 1 is dropped at the end of its
\* block, on a hit (by the return) and on a miss alike.
cache_lock_after_get_kept(h, ret) == IF ret = None THEN h ELSE NoHolder

cache_lock_after_get(h, ret) == NoHolder

\* A connection: the line the client wrote, the handler's position, how
\* many lines the handler read, the response it built and has not written
\* yet, the lines it wrote, the value of the running flag when the
\* connection was accepted (TRUE until then), the error generate_command
\* returned, and the command a provider returned.
Conn(line) ==
    [line |-> line, hpc |-> "queued", lines_read |-> 0, response |-> NoResponse,
     out |-> <<>>, running_at_accept |-> TRUE, failure |-> "", command |-> ""]

ConnIds == 1..Len(conns)

\* Handlers that have been spawned and have not returned.
Live(h) == conns[h].hpc \notin {"queued", "done", "aborted", "dropped"}

\* The daemon process is not started (SpecBatch, SpecCache).
DaemonIdle ==
    /\ server_pc = "down"
    /\ running = FALSE
    /\ socket_file = FALSE
    /\ pid_file = FALSE
    /\ backlog = <<>>
    /\ conns = <<>>
    /\ providers = {}
    /\ constructed = [n \in ProviderNames |-> 0]
    /\ registry_lock = NoHolder
    /\ cache_lock = NoHolder
    /\ pw_pc = "down"
    /\ pool_log = <<>>
    /\ wire = NoWire

\* DaemonServer::new: SessionPool::new with an empty registry and the
\* cache of ResponseCache::default_config, loaded from its snapshot file,
\* running = false.  A socket file
\* may be left over from an earlier daemon.
InitDaemon ==
    /\ server_pc = "created"
    /\ running = FALSE
    /\ socket_file \in BOOLEAN
    /\ pid_file = FALSE
    /\ backlog = <<>>
    /\ conns = <<>>
    /\ providers = {}
    /\ constructed = [n \in ProviderNames |-> 0]
    /\ registry_lock = NoHolder
    /\ cache_lock = NoHolder
    /\ pw_pc = "idle"
    /\ pool_log = <<>>
    /\ wire = NoWire
    /\ cache_state = "up"
    /\ cache = DaemonSnapshot
    /\ ttl = MaxTtl
    /\ max_entries = MaxEntriesBound
    /\ cache_file = [kind |-> "json", content |-> DaemonSnapshot]
    /\ now = 0
    /\ last = NoCall
    /\ set_log = <<>>

\* What a daemon step leaves alone besides the daemon's own variables.
restOfProcess == <<batchVars, cacheConfigVars, pool_log, wire>>

\* ---- DaemonServer::start and main ----
\* start up to the loop: a stale socket file is removed, the listener is
\* bound, the pid file written, the running flag set.
start ==
    /\ server_pc = "created"
    /\ socket_file' = TRUE
    /\ pid_file' = TRUE
    /\ running' = TRUE
    /\ server_pc' = "check"
    /\ UNCHANGED <<backlog, conns, providers, constructed, registry_lock,
                   cache_lock, pw_pc, cache>>
    /\ UNCHANGED restOfProcess

\* The head of the loop: if !*self.running.read().await { break; }
check_running ==
    /\ server_pc = "check"
    /\ server_pc' = IF running THEN "accept" ELSE "stopping"
    /\ UNCHANGED <<running, socket_file, pid_file, backlog, conns, providers,
                   constructed, registry_lock, cache_lock, pw_pc, cache>>
    /\ UNCHANGED restOfProcess

\* listener.accept().await returns Ok: the handler is spawned.
accept ==
    /\ server_pc = "accept"
    /\ backlog # <<>>
    /\ conns' = [conns EXCEPT ![Head(backlog)].hpc = "read",
                              ![Head(backlog)].running_at_accept = running]
    /\ backlog' = Tail(backlog)
    /\ server_pc' = "check"
    /\ UNCHANGED <<running, socket_file, pid_file, providers, constructed,
                   registry_lock, cache_lock, pw_pc, cache>>
    /\ UNCHANGED restOfProcess

\* listener.accept().await returns Err: logged, and the loop goes on.
accept_error ==
    /\ server_pc = "accept"
    /\ server_pc' = "check"
    /\ UNCHANGED <<running, socket_file, pid_file, backlog, conns, providers,
                   constructed, registry_lock, cache_lock, pw_pc, cache>>
    /\ UNCHANGED restOfProcess

\* After the loop: cleanup removes the socket file and the pid file, and
\* start returns.
cleanup ==
    /\ server_pc = "stopping"
    /\ socket_file' = FALSE
    /\ pid_file' = FALSE
    /\ server_pc' = "returned"
    /\ UNCHANGED <<running, backlog, conns, providers, constructed,
                   registry_lock, cache_lock, pw_pc, cache>>
    /\ UNCHANGED restOfProcess

\* start_daemon and main return: #[tokio::main] drops the runtime, which
\* drops every spawned task that has not finished at the await it is
\* suspended at, and its lock guards with it; the listener is gone, with
\* the connections still queued.
main_return ==
    /\ server_pc = "returned"
    /\ server_pc' = "exited"
    /\ conns' = [h \in ConnIds |->
                    IF conns[h].hpc = "queued" THEN [conns[h] EXCEPT !.hpc = "dropped"]
                    ELSE IF Live(h) THEN [conns[h] EXCEPT !.hpc = "aborted"]
                    ELSE conns[h]]
    /\ backlog' = <<>>
    /\ registry_lock' = NoHolder
    /\ cache_lock' = NoHolder
    /\ UNCHANGED <<running, socket_file, pid_file, providers, constructed,
                   pw_pc, cache>>
    /\ UNCHANGED restOfProcess

\* ---- a client ----
\* DaemonClient::send_request up to the read: connect and write one line.
\* Any local process can do the same with a line of its own.
send_request(line) ==
    /\ server_pc \in {"check", "accept", "stopping"}
    /\ Len(conns) < MaxConns
    /\ conns' = Append(conns, Conn(line))
    /\ backlog' = Append(backlog, Len(conns) + 1)
    /\ UNCHANGED <<server_pc, running, socket_file, pid_file, providers,
                   constructed, registry_lock, cache_lock, pw_pc, cache>>
    /\ UNCHANGED restOfProcess

\* ---- DaemonServer::handle_client, one step per await ----
\* read_line and DaemonRequest::from_json.  A line that does not parse makes
\* handle_client return Err through `?`: the stream is dropped with nothing
\* written.  Otherwise the handler goes on to the arm of its request.
read_request(h) ==
    /\ h \in ConnIds
    /\ conns[h].hpc = "read"
    /\ LET parsed == from_json(conns[h].line)
           arm == IF ~parsed.ok THEN "done"
                  ELSE IF parsed.request.type = "Ping" THEN "ping"
                  ELSE IF parsed.request.type = "Shutdown" THEN "shutdown"
                  ELSE "cache_wait"
       IN  conns' = [conns EXCEPT ![h].hpc = arm, ![h].lines_read = @ + 1]
    /\ UNCHANGED <<server_pc, running, socket_file, pid_file, backlog, providers,
                   constructed, registry_lock, cache_lock, pw_pc, cache>>
    /\ UNCHANGED restOfProcess

\* The Ping arm: session_pool.provider_count() takes the registry's read
\* lock.
handle_ping(h) ==
    /\ h \in ConnIds
    /\ conns[h].hpc = "ping"
    /\ CanRead(registry_lock)
    /\ conns' = [conns EXCEPT ![h].hpc = "write",
                              ![h].response = Pong(Cardinality(providers))]
    /\ UNCHANGED <<server_pc, running, socket_file, pid_file, backlog, providers,
                   constructed, registry_lock, cache_lock, pw_pc, cache>>
    /\ UNCHANGED restOfProcess

\* The Shutdown arm: *running.write().await = false
handle_shutdown(h) ==
    /\ h \in ConnIds
    /\ conns[h].hpc = "shutdown"
    /\ running' = FALSE
    /\ conns' = [conns EXCEPT ![h].hpc = "write", ![h].response = ShuttingDown]
    /\ UNCHANGED <<server_pc, socket_file, pid_file, backlog, providers,
                   constructed, registry_lock, cache_lock, pw_pc, cache>>
    /\ UNCHANGED restOfProcess

\* generate_command step 1: self.cache.write().await
lock_cache_for_get(h) ==
    /\ h \in ConnIds
    /\ conns[h].hpc = "cache_wait"
    /\ CanWrite(cache_lock)
    /\ cache_lock' = h
    /\ conns' = [conns EXCEPT ![h].hpc = "cache_get"]
    /\ UNCHANGED <<server_pc, running, socket_file, pid_file, backlog, providers,
                   constructed, registry_lock, pw_pc, cache>>
    /\ UNCHANGED restOfProcess

\* generate_command step 1: cache.get under the guard; a hit returns
\* Ok((command, true)).
cache_lookup(h) ==
    /\ h \in ConnIds
    /\ conns[h].hpc = "cache_get"
    /\ LET r == get(cache, ttl, conns[h].line.prompt, conns[h].line.context, now)
       IN  /\ cache' = r.cache
           /\ cache_lock' = cache_lock_after_get(h, r.ret)
           /\ conns' = IF r.ret # None
                       THEN [conns EXCEPT ![h].hpc = "write",
                                ![h].response = generate_response(Ok(r.ret, TRUE))]
                       ELSE [conns EXCEPT ![h].hpc = "registry_wait"]
    /\ UNCHANGED <<server_pc, running, socket_file, pid_file, backlog, providers,
                   constructed, registry_lock, pw_pc>>
    /\ UNCHANGED restOfProcess

\* generate_command step 2: self.providers.write().await and
\* if !providers.contains_key(provider_name); a resident provider is
\* invoked at once, with the guard `providers` still alive.
lock_registry(h) ==
    /\ h \in ConnIds
    /\ conns[h].hpc = "registry_wait"
    /\ CanWrite(registry_lock)
    /\ registry_lock' = h
    /\ conns' = [conns EXCEPT ![h].hpc =
                    IF conns[h].line.provider \in providers THEN "call" ELSE "create"]
    /\ UNCHANGED <<server_pc, running, socket_file, pid_file, backlog, providers,
                   constructed, cache_lock, pw_pc, cache>>
    /\ UNCHANGED restOfProcess

\* ProviderFactory::create(provider_name)? and providers.insert; then
\* provider.generate_command(prompt, context) is started, inside the block
\* that owns the guard.  An unknown name returns Err, which drops the guard.
registry_create(h) ==
    /\ h \in ConnIds
    /\ conns[h].hpc = "create"
    /\ LET name == conns[h].line.provider
       IN  IF create(name)
           THEN /\ providers' = providers \cup {name}
                /\ constructed' = [constructed EXCEPT ![name] = @ + 1]
                /\ conns' = [conns EXCEPT ![h].hpc = "call"]
                /\ UNCHANGED registry_lock
           ELSE /\ conns' = [conns EXCEPT ![h].hpc = "write",
                                ![h].failure = "unknown provider",
                                ![h].response = generate_response(Err("unknown provider"))]
                /\ registry_lock' = IF registry_lock = h THEN NoHolder ELSE registry_lock
                /\ UNCHANGED <<providers, constructed>>
    /\ UNCHANGED <<server_pc, running, socket_file, pid_file, backlog,
                   cache_lock, pw_pc, cache>>
    /\ UNCHANGED restOfProcess

\* provider.generate_command(..).await resolves; the block of step 2 ends
\* and the registry guard is dropped.  Err goes out through `?`.
provider_return(h, ok, command) ==
    /\ h \in ConnIds
    /\ conns[h].hpc = "call"
    /\ registry_lock' = IF registry_lock = h THEN NoHolder ELSE registry_lock
    /\ conns' = IF ok
                THEN [conns EXCEPT ![h].hpc = "set_wait", ![h].command = command]
                ELSE [conns EXCEPT ![h].hpc = "write",
                         ![h].failure = "provider error",
                         ![h].response = generate_response(Err("provider error"))]
    /\ UNCHANGED <<server_pc, running, socket_file, pid_file, backlog, providers,
                   constructed, cache_lock, pw_pc, cache>>
    /\ UNCHANGED restOfProcess

\* generate_command step 3: self.cache.write().await
lock_cache_for_set(h) ==
    /\ h \in ConnIds
    /\ conns[h].hpc = "set_wait"
    /\ CanWrite(cache_lock)
    /\ cache_lock' = h
    /\ conns' = [conns EXCEPT ![h].hpc = "cache_set"]
    /\ UNCHANGED <<server_pc, running, socket_file, pid_file, backlog, providers,
                   constructed, registry_lock, pw_pc, cache>>
    /\ UNCHANGED restOfProcess

\* generate_command step 3: cache.set under the guard, then
\* Ok((command, false)).
cache_store_if_absent(h) ==
    /\ h \in ConnIds
    /\ conns[h].hpc = "cache_set"
    /\ IF cache_key(conns[h].line.prompt, conns[h].line.context) \in DOMAIN cache
       THEN cache' = cache
       ELSE \E o \in set(cache, max_entries, conns[h].line.prompt,
                          conns[h].line.context, conns[h].command, now) :
               cache' = o.cache
    /\ cache_lock' = IF cache_lock = h THEN NoHolder ELSE cache_lock
    /\ conns' = [conns EXCEPT ![h].hpc = "write", ![h].command = "",
                    ![h].response = generate_response(Ok(conns[h].command, FALSE))]
    /\ UNCHANGED <<server_pc, running, socket_file, pid_file, backlog, providers,
                   constructed, registry_lock, pw_pc>>
    /\ UNCHANGED restOfProcess

cache_store(h) ==
    /\ h \in ConnIds
    /\ conns[h].hpc = "cache_set"
    /\ \E o \in set(cache, max_entries, conns[h].line.prompt,
                     conns[h].line.context, conns[h].command, now) :
          cache' = o.cache
    /\ cache_lock' = IF cache_lock = h THEN NoHolder ELSE cache_lock
    /\ conns' = [conns EXCEPT ![h].hpc = "write", ![h].command = "",
                    ![h].response = generate_response(Ok(conns[h].command, FALSE))]
    /\ UNCHANGED <<server_pc, running, socket_file, pid_file, backlog, providers,
                   constructed, registry_lock, pw_pc>>
    /\ UNCHANGED restOfProcess

\* writer.write_all(response_json) and write_all(b"\n"); handle_client
\* returns and the stream is dropped.
write_response(h) ==
    /\ h \in ConnIds
    /\ conns[h].hpc = "write"
    /\ conns' = [conns EXCEPT ![h].hpc = "done",
                              ![h].out = Append(@, conns[h].response),
                              ![h].response = NoResponse]
    /\ UNCHANGED <<server_pc, running, socket_file, pid_file, backlog, providers,
                   constructed, registry_lock, cache_lock, pw_pc, cache>>
    /\ UNCHANGED restOfProcess

\* ---- SessionPool::prewarm_provider(PrewarmedProvider) ----
\* self.providers.write().await and
\* if !providers.contains_key(provider_name); Ok(()) drops the guard.
prewarm_lock ==
    /\ pw_pc = "idle"
    /\ server_pc # "exited"
    /\ CanWrite(registry_lock)
    /\ IF PrewarmedProvider \in providers
       THEN /\ pw_pc' = "done"
            /\ UNCHANGED registry_lock
       ELSE /\ pw_pc' = "create"
            /\ registry_lock' = PrewarmTask
    /\ UNCHANGED <<server_pc, running, socket_file, pid_file, backlog, conns,
                   providers, constructed, cache_lock, cache>>
    /\ UNCHANGED restOfProcess

\* ProviderFactory::create and providers.insert; Ok(()) drops the guard.
prewarm_create ==
    /\ pw_pc = "create"
    /\ server_pc # "exited"
    /\ providers' = providers \cup {PrewarmedProvider}
    /\ constructed' = [constructed EXCEPT ![PrewarmedProvider] = @ + 1]
    /\ registry_lock' = IF registry_lock = PrewarmTask THEN NoHolder ELSE registry_lock
    /\ pw_pc' = "done"
    /\ UNCHANGED <<server_pc, running, socket_file, pid_file, backlog, conns,
                   cache_lock, cache>>
    /\ UNCHANGED restOfProcess

ServerStep ==
    \/ start
    \/ check_running
    \/ accept
    \/ cleanup
    \/ main_return

HandlerStep(h) ==
    \/ read_request(h)
    \/ handle_ping(h)
    \/ handle_shutdown(h)
    \/ lock_cache_for_get(h)
    \/ cache_lookup(h)
    \/ lock_registry(h)
    \/ registry_create(h)
    \/ \E ok \in BOOLEAN, command \in GeneratedCommands : provider_return(h, ok, command)
    \/ lock_cache_for_set(h)
    \/ cache_store(h)
    \/ write_response(h)

PrewarmStep ==
    \/ prewarm_lock
    \/ prewarm_create

NextDaemon ==
    \/ ServerStep
    \/ accept_error
    \/ \E line \in RequestLines : send_request(line)
    \/ \E h \in 1..MaxConns : read_request(h)
    \/ \E h \in 1..MaxConns : handle_ping(h)
    \/ \E h \in 1..MaxConns : handle_shutdown(h)
    \/ \E h \in 1..MaxConns : lock_cache_for_get(h)
    \/ \E h \in 1..MaxConns : cache_lookup(h)
    \/ \E h \in 1..MaxConns : lock_registry(h)
    \/ \E h \in 1..MaxConns : registry_create(h)
    \/ \E h \in 1..MaxConns, ok \in BOOLEAN, command \in GeneratedCommands :
          provider_return(h, ok, command)
    \/ \E h \in 1..MaxConns : lock_cache_for_set(h)
    \/ \E h \in 1..MaxConns : cache_store(h)
    \/ \E h \in 1..MaxConns : write_response(h)
    \/ PrewarmStep

InitDaemonRun == InitBatch /\ InitDaemon

SpecDaemon == InitDaemonRun /\ [][NextDaemon]_vars

\* The runtime keeps polling the tasks that can go on, and a provider call
\* ends; nothing makes a client connect or an accept fail.
Fairness ==
    /\ WF_vars(ServerStep)
    /\ WF_vars(PrewarmStep)
    /\ \A h \in 1..MaxConns : WF_vars(HandlerStep(h))

SpecDaemonLive == SpecDaemon /\ Fairness

\* ------------------------------------------------------------------------
\* SessionPool called by one task at a time (daemon/session.rs)
\* ------------------------------------------------------------------------
\* Largest number of calls made on the pool.
MaxCalls == 3

\* One call on the pool: what was asked, whether it returned Ok, the
\* response the daemon builds from it, whether a provider was invoked, the
\* keys it removed from the cache, and for a request for a command the
\* clock reading.
PoolCall(op, prompt, context, provider, ok, response, invoked, evicted) ==
    [op |-> op, prompt |-> prompt, context |-> context, provider |-> provider,
     ok |-> ok, response |-> response, invoked |-> invoked, evicted |-> evicted,
     at |-> IF op = "generate" THEN now ELSE 0]

\* The daemon is not started; the pool is as SessionPool::new leaves it,
\* with the cache of default_config and no snapshot file to load.
InitPool ==
    /\ server_pc = "down"
    /\ running = FALSE
    /\ socket_file = FALSE
    /\ pid_file = FALSE
    /\ backlog = <<>>
    /\ conns = <<>>
    /\ providers = {}
    /\ constructed = [n \in ProviderNames |-> 0]
    /\ registry_lock = NoHolder
    /\ cache_lock = NoHolder
    /\ pw_pc = "down"
    /\ pool_log = <<>>
    /\ wire = NoWire
    /\ cache_state = "up"
    /\ cache = EmptyCache
    /\ ttl \in 1..MaxTtl
    /\ max_entries \in 1..MaxEntriesBound
    /\ cache_file = [kind |-> "missing", content |-> EmptyCache]
    /\ now = 0
    /\ last = NoCall
    /\ set_log = <<>>

poolFrame == <<batchVars, cache_state, ttl, max_entries, cache_file, last, set_log,
               server_pc, running, socket_file, pid_file, backlog, conns,
               registry_lock, cache_lock, pw_pc, wire>>

\* SessionPool::prewarm_provider.  start_daemon pre-warms before the server
\* is started, so before any request is served.
prewarm_provider(provider_name) ==
    /\ Len(pool_log) < MaxCalls
    /\ \A i \in 1..Len(pool_log) : pool_log[i].op = "prewarm_provider"
    /\ IF provider_name \in providers
       THEN /\ UNCHANGED <<providers, constructed>>
            /\ pool_log' = Append(pool_log, PoolCall("prewarm_provider", "", "",
                              provider_name, TRUE, NoResponse, FALSE, {}))
       ELSE IF create(provider_name)
       THEN /\ providers' = providers \cup {provider_name}
            /\ constructed' = [constructed EXCEPT ![provider_name] = @ + 1]
            /\ pool_log' = Append(pool_log, PoolCall("prewarm_provider", "", "",
                              provider_name, TRUE, NoResponse, FALSE, {}))
       ELSE /\ UNCHANGED <<providers, constructed>>
            /\ pool_log' = Append(pool_log, PoolCall("prewarm_provider", "", "",
                              provider_name, FALSE, NoResponse, FALSE, {}))
    /\ UNCHANGED <<cache, now>>
    /\ UNCHANGED poolFrame

\* SessionPool::generate_command, and the response handle_client builds
\* from its result.  ok and command are what the provider call returns if
\* it is made.
generate_command(prompt, context, provider_name, ok, command) ==
    /\ Len(pool_log) < MaxCalls
    /\ LET g == get(cache, ttl, prompt, context, now)
       IN  IF g.ret # None
           THEN \* step 1: a hit returns at once
                /\ cache' = g.cache
                /\ UNCHANGED <<providers, constructed>>
                /\ pool_log' = Append(pool_log, PoolCall("generate", prompt, context,
                                  provider_name, TRUE,
                                  generate_response(Ok(g.ret, TRUE)), FALSE, g.removed))
           ELSE IF provider_name \notin providers /\ ~create(provider_name)
           THEN \* step 2: ProviderFactory::create fails
                /\ cache' = g.cache
                /\ UNCHANGED <<providers, constructed>>
                /\ pool_log' = Append(pool_log, PoolCall("generate", prompt, context,
                                  provider_name, FALSE,
                                  generate_response(Err("unknown provider")), FALSE,
                                  g.removed))
           ELSE /\ providers' = providers \cup {provider_name}
                /\ constructed' = IF provider_name \in providers THEN constructed
                                  ELSE [constructed EXCEPT ![provider_name] = @ + 1]
                /\ IF ok
                   THEN \* step 3: the command is stored
                        \E o \in set(g.cache, max_entries, prompt, context, command, now) :
                           /\ cache' = o.cache
                           /\ pool_log' = Append(pool_log, PoolCall("generate", prompt,
                                             context, provider_name, TRUE,
                                             generate_response(Ok(command, FALSE)), TRUE,
                                             g.removed \cup o.removed))
                   ELSE /\ cache' = g.cache
                        /\ pool_log' = Append(pool_log, PoolCall("generate", prompt,
                                          context, provider_name, FALSE,
                                          generate_response(Err("provider error")), TRUE,
                                          g.removed))
    /\ UNCHANGED now
    /\ UNCHANGED poolFrame

\* SessionPool::provider_count, as the Ping arm of handle_client reports it.
provider_count ==
    /\ Len(pool_log) < MaxCalls
    /\ pool_log' = Append(pool_log, PoolCall("ping", "", "", "", TRUE,
                      Pong(Cardinality(providers)), FALSE, {}))
    /\ UNCHANGED <<cache, now, providers, constructed>>
    /\ UNCHANGED poolFrame

\* Time passes between two calls; the pool reads the clock only against
\* the entries of its cache.
pool_tick ==
    /\ now < MaxClock
    /\ cache # EmptyCache
    /\ Len(pool_log) < MaxCalls
    /\ now' = now + 1
    /\ UNCHANGED <<cache, providers, constructed, pool_log>>
    /\ UNCHANGED poolFrame

NextPool ==
    \/ \E n \in RequestedProviders : prewarm_provider(n)
    \/ \E p \in Prompts, n \in RequestedProviders, ok \in BOOLEAN, cmd \in Commands :
          generate_command(p, DaemonContext, n, ok, cmd)
    \/ provider_count
    \/ pool_tick

InitPoolRun == InitBatch /\ InitPool

SpecPool == InitPoolRun /\ [][NextPool]_vars

\* ------------------------------------------------------------------------
\* The wire format (daemon/protocol.rs): serde_json on internally tagged enums
\* ------------------------------------------------------------------------
\* A string is a sequence of characters.  The characters are a letter, the
\* quote, the backslash and the line feed: the ones the JSON writer treats
\* differently, and the letter an escape is spelled with.
Alphabet == {"n", "\"", "\\", "\n"}
Strings == UNION {[1..k -> Alphabet] : k \in 0..MaxStr}
ShortStrings == {str \in Strings : Len(str) <= 1}

\* The numbers carried by Pong: one digit, two digits, three digits.
Numbers == {0, 9, 10, 120}

\* The values of DaemonRequest.
Request(type, prompt, context, provider) ==
    [enum |-> "DaemonRequest", type |-> type, prompt |-> prompt,
     context |-> context, provider |-> provider]
DaemonRequest ==
    {Request("GenerateCommand", p, c, n) :
        p \in Strings, c \in ShortStrings, n \in ShortStrings}
    \cup {Request("Ping", <<>>, <<>>, <<>>), Request("Shutdown", <<>>, <<>>, <<>>)}

\* The values of DaemonResponse.
WireResponse(tag, command, from_cache, uptime_seconds, session_count, message) ==
    [enum |-> "DaemonResponse", status |-> tag, command |-> command,
     from_cache |-> from_cache, uptime_seconds |-> uptime_seconds,
     session_count |-> session_count, message |-> message]
DaemonResponse ==
    {WireResponse("Success", c, b, 0, 0, <<>>) : c \in Strings, b \in BOOLEAN}
    \cup {WireResponse("Pong", <<>>, FALSE, u, n, <<>>) : u \in Numbers, n \in Numbers}
    \cup {WireResponse("Error", <<>>, FALSE, 0, 0, m) : m \in Strings}
    \cup {WireResponse("ShuttingDown", <<>>, FALSE, 0, 0, <<>>)}

\* serde_json's string writer: quote, backslash and control characters are
\* written as escapes, everything else as it is.
escape_raw(str) == str

RECURSIVE escape(_)
escape(str) ==
    IF str = <<>> THEN <<>>
    ELSE LET c == Head(str)
             e == IF c = "\"" THEN <<"\\", "\"">>
                  ELSE IF c = "\\" THEN <<"\\", "\\">>
                  ELSE IF c = "\n" THEN <<"\\", "n">>
                  ELSE <<c>>
         IN  e \o escape(Tail(str))

\* serde_json's string reader: Err for a bare control character or quote and
\* for a backslash that starts no escape.
RECURSIVE unescape(_)
unescape(text) ==
    IF text = <<>> THEN [ok |-> TRUE, str |-> <<>>]
    ELSE IF Head(text) = "\\"
    THEN IF Len(text) >= 2 /\ text[2] \in {"\"", "\\", "n"}
         THEN LET rest == unescape(Tail(Tail(text)))
                  c == IF text[2] = "n" THEN "\n" ELSE text[2]
              IN  [ok |-> rest.ok, str |-> <<c>> \o rest.str]
         ELSE [ok |-> FALSE, str |-> <<>>]
    ELSE IF Head(text) \in {"\"", "\n"}
    THEN [ok |-> FALSE, str |-> <<>>]
    ELSE LET rest == unescape(Tail(text))
         IN  [ok |-> rest.ok, str |-> <<Head(text)>> \o rest.str]

\* An unsigned integer in decimal, and back.
DigitChars == <<"0", "1", "2", "3", "4", "5", "6", "7", "8", "9">>
RECURSIVE digits(_)
digits(n) ==
    IF n < 10 THEN <<DigitChars[n + 1]>>
    ELSE digits(n \div 10) \o <<DigitChars[(n % 10) + 1]>>
RECURSIVE parse_digits(_)
parse_digits(text) ==
    IF text = <<>> THEN 0
    ELSE LET d == CHOOSE k \in 0..9 : DigitChars[k + 1] = text[Len(text)]
         IN  parse_digits(SubSeq(text, 1, Len(text) - 1)) * 10 + d

\* One member of a JSON object, as written: its key and its value, a
\* string literal (the escaped text between the quotes), a number literal
\* (its digits) or a boolean literal.
Member(key, kind, text) == [key |-> key, kind |-> kind, text |-> text]
JString(key, str) == Member(key, "string", escape(str))
JNumber(key, n) == Member(key, "number", digits(n))
JBool(key, b) == Member(key, "bool", IF b THEN <<"true">> ELSE <<"false">>)

\* DaemonRequest::to_json: the tag `type` first, then the variant's fields
\* in declaration order.
to_json_request(v) ==
    IF v.type = "GenerateCommand"
    THEN <<JString("type", <<v.type>>), JString("prompt", v.prompt),
           JString("context", v.context), JString("provider", v.provider)>>
    ELSE <<JString("type", <<v.type>>)>>

\* DaemonResponse::to_json: the tag `status` first, then the variant's
\* fields in declaration order.
to_json_response(v) ==
    IF v.status = "Success"
    THEN <<JString("status", <<v.status>>), JString("command", v.command),
           JBool("from_cache", v.from_cache)>>
    ELSE IF v.status = "Pong"
    THEN <<JString("status", <<v.status>>),
           JNumber("uptime_seconds", v.uptime_seconds),
           JNumber("session_count", v.session_count)>>
    ELSE IF v.status = "Error"
    THEN <<JString("status", <<v.status>>), JString("message", v.message)>>
    ELSE <<JString("status", <<v.status>>)>>

\* The members of the object json with the key key and a literal of kind kind.
Field(json, key, kind) ==
    {i \in 1..Len(json) : json[i].key = key /\ json[i].kind = kind}
\* A field the derive requires: present once, of the right kind, readable.
HasString(json, key) ==
    /\ Cardinality({i \in 1..Len(json) : json[i].key = key}) = 1
    /\ Field(json, key, "string") # {}
    /\ unescape(json[CHOOSE i \in Field(json, key, "string") : TRUE].text).ok
HasLiteral(json, key, kind) ==
    /\ Cardinality({i \in 1..Len(json) : json[i].key = key}) = 1
    /\ Field(json, key, kind) # {}
StringOf(json, key) ==
    unescape(json[CHOOSE i \in Field(json, key, "string") : TRUE].text).str
NumberOf(json, key) ==
    parse_digits(json[CHOOSE i \in Field(json, key, "number") : TRUE].text)
BoolOf(json, key) ==
    json[CHOOSE i \in Field(json, key, "bool") : TRUE].text = <<"true">>

\* DaemonRequest::from_json: the variant is chosen by the tag `type`, its
\* fields are read by name; Err for a missing or unknown tag and for a
\* missing or unreadable field.
from_json_request(json) ==
    LET err == [ok |-> FALSE, value |-> Request("", <<>>, <<>>, <<>>)]
    IN  IF ~HasString(json, "type") THEN err
        ELSE LET tag == StringOf(json, "type")
             IN  IF tag = <<"GenerateCommand">>
                 THEN IF /\ HasString(json, "prompt")
                         /\ HasString(json, "context")
                         /\ HasString(json, "provider")
                      THEN [ok |-> TRUE,
                            value |-> Request("GenerateCommand",
                                         StringOf(json, "prompt"),
                                         StringOf(json, "context"),
                                         StringOf(json, "provider"))]
                      ELSE err
                 ELSE IF tag \in {<<"Ping">>, <<"Shutdown">>}
                 THEN [ok |-> TRUE, value |-> Request(tag[1], <<>>, <<>>, <<>>)]
                 ELSE err

\* DaemonResponse::from_json: as for requests, with the tag `status`.
from_json_response(json) ==
    LET err == [ok |-> FALSE, value |-> WireResponse("", <<>>, FALSE, 0, 0, <<>>)]
    IN  IF ~HasString(json, "status") THEN err
        ELSE LET tag == StringOf(json, "status")
             IN  IF tag = <<"Success">>
                 THEN IF HasString(json, "command") /\ HasLiteral(json, "from_cache", "bool")
                      THEN [ok |-> TRUE,
                            value |-> WireResponse("Success", StringOf(json, "command"),
                                         BoolOf(json, "from_cache"), 0, 0, <<>>)]
                      ELSE err
                 ELSE IF tag = <<"Pong">>
                 THEN IF /\ HasLiteral(json, "uptime_seconds", "number")
                         /\ HasLiteral(json, "session_count", "number")
                      THEN [ok |-> TRUE,
                            value |-> WireResponse("Pong", <<>>, FALSE,
                                         NumberOf(json, "uptime_seconds"),
                                         NumberOf(json, "session_count"), <<>>)]
                      ELSE err
                 ELSE IF tag = <<"Error">>
                 THEN IF HasString(json, "message")
                      THEN [ok |-> TRUE,
                            value |-> WireResponse("Error", <<>>, FALSE, 0, 0,
                                         StringOf(json, "message"))]
                      ELSE err
                 ELSE IF tag = <<"ShuttingDown">>
                 THEN [ok |-> TRUE,
                       value |-> WireResponse("ShuttingDown", <<>>, FALSE, 0, 0, <<>>)]
                 ELSE err

\* A value of either enum is about to be written.
InitProtocol ==
    \E v \in DaemonRequest \cup DaemonResponse :
        wire = [pc |-> "value", value |-> v, json |-> <<>>,
                result |-> [ok |-> FALSE, value |-> v]]

protocolFrame == <<batchVars, cacheVars, server_pc, running, socket_file, pid_file,
                   backlog, conns, providers, constructed, registry_lock,
                   cache_lock, pw_pc, pool_log>>

\* DaemonClient::send_request writes the request with to_json.
write_request ==
    /\ wire.pc = "value"
    /\ wire.value.enum = "DaemonRequest"
    /\ wire' = [wire EXCEPT !.pc = "json", !.json = to_json_request(wire.value)]
    /\ UNCHANGED protocolFrame

\* handle_client reads it with from_json.
parse_request ==
    /\ wire.pc = "json"
    /\ wire.value.enum = "DaemonRequest"
    /\ wire' = [wire EXCEPT !.pc = "read", !.result = from_json_request(wire.json)]
    /\ UNCHANGED protocolFrame

\* handle_client writes the response with to_json.
write_json_response ==
    /\ wire.pc = "value"
    /\ wire.value.enum = "DaemonResponse"
    /\ wire' = [wire EXCEPT !.pc = "json", !.json = to_json_response(wire.value)]
    /\ UNCHANGED protocolFrame

\* DaemonClient::send_request reads it with from_json.
parse_response ==
    /\ wire.pc = "json"
    /\ wire.value.enum = "DaemonResponse"
    /\ wire' = [wire EXCEPT !.pc = "read", !.result = from_json_response(wire.json)]
    /\ UNCHANGED protocolFrame

NextProtocol ==
    \/ write_request
    \/ parse_request
    \/ write_json_response
    \/ parse_response

ProtocolElsewhereIdle ==
    /\ server_pc = "down"
    /\ running = FALSE
    /\ socket_file = FALSE
    /\ pid_file = FALSE
    /\ backlog = <<>>
    /\ conns = <<>>
    /\ providers = {}
    /\ constructed = [n \in ProviderNames |-> 0]
    /\ registry_lock = NoHolder
    /\ cache_lock = NoHolder
    /\ pw_pc = "down"
    /\ pool_log = <<>>

InitProtocolRun == InitBatch /\ CacheIdle /\ ProtocolElsewhereIdle /\ InitProtocol

SpecProtocol == InitProtocolRun /\ [][NextProtocol]_vars

\* ------------------------------------------------------------------------
\* Snapshots: save_to_disk, Drop and load_from_disk (cache/response.rs)
\* ------------------------------------------------------------------------
\* The caches written: any entries under the keys of the two prompts.
SnapshotKeys == {cache_key(p, DaemonContext) : p \in Prompts}
Entries ==
    [command : Commands, timestamp : 0..MaxClock, hit_count : 0..MaxHits]
SnapshotInputs == UNION {[ks -> Entries] : ks \in SUBSET SnapshotKeys}

\* What a failed std::fs::write may leave: the file as it was, or created
\* and cut short.
TruncatedFile == [kind |-> "corrupt", content |-> EmptyCache]

\* save_to_disk: the map as pretty JSON, then std::fs::write; Err through
\* `?` when the write fails.
save_to_disk(c, file, write_ok) ==
    IF write_ok
    THEN {[ok |-> TRUE, file |-> [kind |-> "json", content |-> to_snapshot(c)]]}
    ELSE {[ok |-> FALSE, file |-> file], [ok |-> FALSE, file |-> TruncatedFile]}

\* What leaves drop(): nothing on Ok; on Err the warning is printed and the
\* error goes no further.
drop_outcome_propagating(result) == IF result.ok THEN "Ok" ELSE "Err"

drop_outcome(result) == IF result.ok THEN "Ok" ELSE "Warning"

\* A cache with some contents, over some earlier snapshot file.
InitSnapshot ==
    /\ cache_state = "up"
    /\ cache \in SnapshotInputs
    /\ ttl = 1
    /\ max_entries = 1
    /\ cache_file \in InitialFiles
    /\ now = MaxClock
    /\ last = NoCall
    /\ set_log = <<>>

\* An explicit save_to_disk call: its Result goes to the caller.
cache_save(write_ok) ==
    /\ cache_state = "up"
    /\ \E r \in save_to_disk(cache, cache_file, write_ok) :
          /\ cache_file' = r.file
          /\ last' = Call("save", "", "", "", IF r.ok THEN "Ok" ELSE "Err", 0, {})
    /\ cache_state' = "saved"
    /\ UNCHANGED <<cache, ttl, max_entries, now, set_log>>
    /\ UNCHANGED <<batchVars, daemonVars>>

\* impl Drop for ResponseCache.  cache keeps what the instance held when it
\* was dropped.
cache_drop(write_ok) ==
    /\ cache_state \in {"up", "saved"}
    /\ \E r \in save_to_disk(cache, cache_file, write_ok) :
          /\ cache_file' = r.file
          /\ last' = Call("drop", "", "", "", drop_outcome(r), 0, {})
    /\ cache_state' = "dropped"
    /\ UNCHANGED <<cache, ttl, max_entries, now, set_log>>
    /\ UNCHANGED <<batchVars, daemonVars>>

\* A fresh instance: ResponseCache::new starts from an empty map and calls
\* load_from_disk.
cache_load_fresh ==
    /\ cache_state \in {"saved", "dropped"}
    /\ LET l == load_from_disk(EmptyCache, cache_file)
       IN  /\ cache' = l.cache
           /\ last' = Call("load", "", "", "", IF l.ok THEN "Ok" ELSE "Err", 0, {})
    /\ cache_state' = "loaded"
    /\ UNCHANGED <<ttl, max_entries, cache_file, now, set_log>>
    /\ UNCHANGED <<batchVars, daemonVars>>

NextSnapshot ==
    \/ \E write_ok \in BOOLEAN : cache_save(write_ok)
    \/ \E write_ok \in BOOLEAN : cache_drop(write_ok)
    \/ cache_load_fresh

InitSnapshotRun == InitBatch /\ InitSnapshot /\ DaemonIdle

SpecSnapshot == InitSnapshotRun /\ [][NextSnapshot]_vars

InitCacheRun == InitBatch /\ InitCache /\ DaemonIdle

SpecCache == InitCacheRun /\ [][NextCache]_vars

InitBatchRun == InitBatch /\ CacheIdle /\ DaemonIdle

SpecBatch == InitBatchRun /\ [][NextBatch]_vars

\* ========================================================================
\* Properties: planner and batch executor (checked under SpecBatch)
\* ========================================================================
GroupsComputed == mode \in {"plan", "parallel"}
Returned == batch_result # NoResult

TaskSet == Range(tasks)

\* Ids reachable from S along recorded dependency edges.
RECURSIVE DepClosure(_)
DepClosure(S) ==
    LET N == S \cup {e[2] : e \in {x \in dependencies : x[1] \in S}}
    IN  IF N = S THEN S ELSE DepClosure(N)

DepReach(id) == DepClosure(DepsOf(Plan, id))

\* Every dependency chain starting at a task stays inside the plan's tasks
\* and never comes back to its start.
DepsSchedulable ==
    \A id \in TaskSet : DepReach(id) \subseteq TaskSet /\ id \notin DepReach(id)

\* Index of the group holding id, 0 when no group holds it.
GroupIndex(id) ==
    IF \E g \in 1..Len(groups) : id \in Range(groups[g])
    THEN CHOOSE g \in 1..Len(groups) : id \in Range(groups[g])
    ELSE 0

\* C1 (as stated): every BatchResult returned by execute has
\* success_count + failure_count = total, total being the number of tasks
\* of the plan, whatever the dependencies and the path.
C1_CountsSumToTotal ==
    Returned =>
        /\ batch_result.total = Len(tasks)
        /\ batch_result.success_count + batch_result.failure_count
               = batch_result.total

C3_DepsInEarlierGroup ==
    GroupsComputed =>
        \A id \in Range(Flatten(groups)) : \A d \in DepsOf(Plan, id) :
            GroupIndex(d) > 0 /\ GroupIndex(d) < GroupIndex(id)

\* C3 (amended): when parallelization is enabled, every task in the
\* returned groups has each of its dependencies in a strictly earlier
\* group.
C3_DepsInEarlierGroupWhenParallel ==
    (GroupsComputed /\ can_parallelize) =>
        \A id \in Range(Flatten(groups)) : \A d \in DepsOf(Plan, id) :
            GroupIndex(d) > 0 /\ GroupIndex(d) < GroupIndex(id)

C3_Witness ==
    /\ mode = "plan" /\ can_parallelize
    /\ \E id \in Range(Flatten(groups)) :
          /\ Cardinality(DepsOf(Plan, id)) = 2
          /\ \A d \in DepsOf(Plan, id) : GroupIndex(d) < GroupIndex(id)

\* C4: on the parallel path no task of a later group has begun while a
\* task of an earlier group has not finished.
C4_GroupOrdering ==
    mode = "parallel" =>
        \A g1 \in 1..Len(groups) : \A g2 \in (g1 + 1)..Len(groups) :
            \A a \in Range(groups[g1]) : \A b \in Range(groups[g2]) :
                status[b] # "pending" => status[a] \in {"ok", "failed"}

C4_Witness ==
    /\ mode = "parallel" /\ pc = "join"
    /\ Len(groups) >= 2 /\ group_idx = 2
    /\ Len(groups[1]) = 2
    /\ \E b \in Range(groups[2]) : status[b] = "running"
    /\ \E a \in Range(groups[1]) : status[a] = "failed"

\* C5 (as stated): whatever tasks fail, execute runs every task of the plan
\* to completion, task_results holds exactly one result per task, and the
\* failed ones are those failed_tasks() returns.
C5_EveryTaskReported ==
    Returned =>
        /\ \A id \in TaskSet :
              /\ status[id] \in {"ok", "failed"}
              /\ Count([i \in 1..Len(batch_result.task_results) |->
                           batch_result.task_results[i].task_id], id) = 1
        /\ \A id \in TaskSet :
              (status[id] = "failed") <=>
                  (\E i \in 1..Len(failed_tasks(batch_result)) :
                       failed_tasks(batch_result)[i].task_id = id)

\* ========================================================================
\* Properties: response cache (checked under SpecCache)
\* ========================================================================
LastKey == cache_key(last.prompt, last.context)

C7_SizeWithinMaxEntries ==
    cache_state = "up" => Cardinality(DOMAIN cache) <= max_entries

\* C8 (as stated): a set on a cache holding max_entries entries evicts
\* exactly one entry, one of smallest timestamp, and then inserts the new
\* entry; and with max_entries = 2, after set(a), set(b), set(c) in that
\* order on an empty cache, get(a) returns nothing and get(c) returns c's
\* command.
C8_EvictsOldestOnly ==
    [][/\ (/\ last'.op = "set"
           /\ cache_state = "up"
           /\ Cardinality(DOMAIN cache) = max_entries)
          => \E k \in OldestKeys(cache) :
                /\ last'.removed = {k}
                /\ cache' = Insert(Remove(cache, k),
                                   cache_key(last'.prompt, last'.context),
                                   CacheEntry(last'.command, now))
       /\ (/\ last'.op = "get"
           /\ max_entries = 2
           /\ Len(set_log) = 3
           /\ Cardinality(Range(set_log)) = 3)
          => LET key == cache_key(last'.prompt, last'.context)
             IN  /\ key = set_log[1] => last'.ret = None
                 /\ (key = set_log[3] /\ last.op = "set")
                    => last'.ret = last.command
      ]_vars

\* C9: a get never returns the command of an entry whose age has reached
\* the TTL; such a lookup removes the entry and returns nothing, and a
\* lookup of an absent key returns nothing.
C9_ExpiredNeverReturned ==
    [][(last'.op = "get" /\ cache_state = "up")
       => LET key == cache_key(last'.prompt, last'.context)
          IN  /\ (/\ key \in DOMAIN cache
                  /\ now - cache[key].timestamp >= ttl * TicksPerSecond)
                 => (last'.ret = None /\ key \notin DOMAIN cache')
              /\ key \notin DOMAIN cache => last'.ret = None
      ]_vars

C9_Witness ==
    /\ last.op = "get"
    /\ last.ret = None
    /\ last.removed = {LastKey}
    /\ LastKey \notin DOMAIN cache

\* C10 (as stated): distinct (prompt, context) pairs get distinct keys, so
\* when the only entry of the cache was stored by set(p1, c1, cmd), a get
\* for another pair (p2, c2) returns nothing.
C10_OtherPairNeverHits ==
    [][(/\ last.op = "set"
        /\ Cardinality(DOMAIN cache) = 1
        /\ last'.op = "get"
        /\ <<last'.prompt, last'.context>> # <<last.prompt, last.context>>)
       => last'.ret = None]_vars

\* ========================================================================
\* Properties: daemon (checked under SpecDaemon and SpecDaemonLive)
\* ========================================================================
\* C11: every connection that delivered a request line and whose handler
\* has returned was read exactly one line from and written exactly one
\* response line to.
C11_OneRequestOneResponse ==
    \A h \in ConnIds :
        conns[h].hpc = "done" =>
            conns[h].lines_read = 1 /\ Len(conns[h].out) = 1

\* C12: a request line that decodes to no DaemonRequest variant is answered
\* with an Error response before the connection closes.
C12_MalformedGetsError ==
    \A h \in ConnIds :
        (conns[h].hpc = "done" /\ ~from_json(conns[h].line).ok) =>
            (Len(conns[h].out) = 1 /\ conns[h].out[1].status = "Error")

\* C13: a cache-miss GenerateCommand whose provider is unknown or whose
\* provider call failed is answered with Error{message} whenever its handler
\* returns, and the step in which generate_command fails changes nothing of
\* the accept loop: not its position, not the running flag, not the
\* connections waiting to be accepted.
C13_ProviderErrorAnswered ==
    /\ [](\A h \in ConnIds :
            conns[h].failure # "" =>
                /\ conns[h].hpc \in {"write", "done", "aborted"}
                /\ conns[h].hpc = "write" => conns[h].response = Error(conns[h].failure)
                /\ conns[h].hpc = "done" => conns[h].out = <<Error(conns[h].failure)>>)
    /\ [][\A h \in ConnIds :
            (conns[h].failure = "" /\ conns'[h].failure # "") =>
                UNCHANGED <<server_pc, running, backlog>>]_vars

\* C13 witness: a connection was answered with Error, a later connection was
\* answered too, and the accept loop is still running.
C13_Witness ==
    \E h \in ConnIds, g \in ConnIds :
        /\ h < g
        /\ conns[h].failure # ""
        /\ conns[h].out = <<Error(conns[h].failure)>>
        /\ conns[g].hpc = "done"
        /\ Len(conns[g].out) = 1
        /\ server_pc \in {"check", "accept"}
        /\ running

\* C14: the registry lock is never held by a handler whose provider call is
\* in flight.
C14_RegistryLockFreeDuringCall ==
    \A h \in ConnIds : conns[h].hpc = "call" => registry_lock # h

\* C15: while one connection's provider call is in flight, a Ping and a
\* cache-miss GenerateCommand for a different provider on another connection
\* can take their next step: the lock they need is free.
C15_NoConnectionBlocksAnother ==
    \A h \in ConnIds, g \in ConnIds :
        (h # g /\ conns[g].hpc = "call") =>
            /\ conns[h].hpc = "ping" => CanRead(registry_lock)
            /\ (conns[h].hpc = "registry_wait"
                  /\ conns[h].line.provider # conns[g].line.provider)
               => CanWrite(registry_lock)

\* C16: the cache lock is held only by a handler that is inside its single
\* get or its single set, never by one whose provider call is in flight or
\* that waits for the registry; so whoever waits for the cache lock waits
\* only for a get or a set.
C16_CacheLockOnlyForGetOrSet ==
    /\ cache_lock \in ConnIds \cup {NoHolder}
    /\ \A h \in ConnIds :
          /\ cache_lock = h => conns[h].hpc \in {"cache_get", "cache_set"}
          /\ conns[h].hpc \in {"registry_wait", "create", "call", "set_wait"}
                => cache_lock # h

\* C16 witness: while the provider call of g is in flight, h holds the cache
\* lock for a get that hits.
C16_Witness ==
    \E h \in ConnIds, g \in ConnIds :
        /\ conns[g].hpc = "call"
        /\ conns[h].hpc = "cache_get"
        /\ cache_lock = h
        /\ get(cache, ttl, conns[h].line.prompt, conns[h].line.context, now).ret # None

\* C17: every provider name is constructed at most once, whatever the
\* interleaving of GenerateCommand handlers and prewarm_provider.
C17_ConstructedAtMostOnce ==
    \A n \in ProviderNames : constructed[n] <= 1

\* C17 witness: prewarm_provider and a GenerateCommand handler both asked
\* for the same provider, both are past the registry, and it was constructed
\* once.
C17_Witness ==
    /\ pw_pc = "done"
    /\ constructed[PrewarmedProvider] = 1
    /\ \E h \in ConnIds :
          /\ conns[h].line.provider = PrewarmedProvider
          /\ conns[h].hpc = "call"

\* C18: every connection the accept loop accepted was accepted while the
\* running flag was set.
C18_AcceptedOnlyWhileRunning ==
    \A h \in ConnIds :
        conns[h].hpc \notin {"queued", "dropped"} => conns[h].running_at_accept

\* C19: once ShuttingDown has been written, start eventually leaves the
\* loop and removes the socket file and the pid file.
C19_ShutdownLeadsToCleanup ==
    (\E h \in ConnIds : conns[h].out = <<ShuttingDown>>)
        ~> (server_pc \in {"returned", "exited"} /\ ~socket_file /\ ~pid_file)

\* C20: no handler of an accepted connection is dropped before it has
\* returned.
C20_HandlersRunToCompletion ==
    \A h \in ConnIds : conns[h].hpc # "aborted"

\* ========================================================================
\* Properties: SessionPool called by one task at a time (SpecPool)
\* ========================================================================
\* The call just made on the pool.
Made == pool_log'[Len(pool_log')]

\* A step that is one call of the operation op.
Calls(op) == Len(pool_log') = Len(pool_log) + 1 /\ Made.op = op

\* The calls made so far that asked for a command.
Generates == {i \in 1..Len(pool_log) : pool_log[i].op = "generate"}

\* Call j is the next call after call i that asks for the same (prompt,
\* context) pair.
NextSamePair(i, j) ==
    /\ i \in Generates /\ j \in Generates /\ i < j
    /\ pool_log[j].prompt = pool_log[i].prompt
    /\ pool_log[j].context = pool_log[i].context
    /\ \A k \in Generates : i < k /\ k < j =>
          \/ pool_log[k].prompt # pool_log[i].prompt
          \/ pool_log[k].context # pool_log[i].context

\* Call i missed the cache and its provider call succeeded.
MissSuccess(i) ==
    /\ pool_log[i].response.status = "Success"
    /\ ~pool_log[i].response.from_cache

\* Call j is made before what call i stored has reached the TTL.
WithinTtl(i, j) == num_seconds(pool_log[j].at - pool_log[i].at) < ttl

\* Call j is answered from the cache with the command call i returned, and
\* invokes no provider.
AnsweredFrom(i, j) ==
    /\ pool_log[j].response = Success(pool_log[i].response.command, TRUE)
    /\ ~pool_log[j].invoked

\* No call between i and j removed from the cache the entry call i stored.
KeptBetween(i, j) ==
    \A k \in (i + 1)..(j - 1) :
        cache_key(pool_log[i].prompt, pool_log[i].context) \notin pool_log[k].evicted

\* The provider names resident before call j: those a prewarm_provider
\* constructed or found, and those a GenerateCommand reached the provider
\* call with.
ResidentBefore(j) ==
    {pool_log[i].provider : i \in {k \in 1..(j - 1) :
        \/ pool_log[k].op = "prewarm_provider" /\ pool_log[k].ok
        \/ pool_log[k].op = "generate" /\ pool_log[k].invoked}}

\* C21: a GenerateCommand whose (prompt, context) pair has a live cache
\* entry is answered Success with the cached command and from_cache = true,
\* invokes no provider, and leaves the registry and the provider count as
\* they were, whatever provider name it carries.
C21_CacheHitSkipsProvider ==
    [][\A p \in Prompts, n \in RequestedProviders :
          LET key == cache_key(p, DaemonContext)
          IN  ( /\ Calls("generate")
                /\ Made.prompt = p /\ Made.context = DaemonContext
                /\ Made.provider = n
                /\ key \in DOMAIN cache
                /\ within_ttl(cache[key], now, ttl) )
              => /\ Made.response = Success(cache[key].command, TRUE)
                 /\ ~Made.invoked
                 /\ providers' = providers
                 /\ constructed' = constructed]_vars

\* C21 witness: a request naming a provider the factory does not know was
\* answered from the cache with the command an earlier request stored, and
\* one provider is resident.
C21_Witness ==
    \E i \in Generates, j \in Generates :
        /\ i < j
        /\ MissSuccess(i)
        /\ pool_log[j].provider \notin ProviderNames
        /\ pool_log[j].response = Success(pool_log[i].response.command, TRUE)
        /\ ~pool_log[j].invoked
        /\ Cardinality(providers) = 1

\* C22 (as stated): after a cache-miss GenerateCommand succeeded, the next
\* GenerateCommand with the same pair made within the TTL is answered from
\* the cache with the same command and without a provider call.
C22_NextSamePairHits ==
    \A i \in Generates, j \in Generates :
        (NextSamePair(i, j) /\ MissSuccess(i) /\ WithinTtl(i, j))
            => AnsweredFrom(i, j)

\* C22 (amended): the same, provided no call in between evicted the entry
\* the first call stored.
C22_NextSamePairHitsUnlessEvicted ==
    \A i \in Generates, j \in Generates :
        (NextSamePair(i, j) /\ MissSuccess(i) /\ WithinTtl(i, j) /\ KeptBetween(i, j))
            => AnsweredFrom(i, j)

\* C22 witness: a miss stored a command, a request for another pair was
\* stored in between without evicting it, and the next request for the
\* first pair was answered from the cache.
C22_Witness ==
    \E i \in Generates, j \in Generates :
        /\ NextSamePair(i, j) /\ MissSuccess(i) /\ WithinTtl(i, j)
        /\ j = i + 2
        /\ MissSuccess(i + 1)
        /\ KeptBetween(i, j)
        /\ AnsweredFrom(i, j)

C31_JsonRoundTrip ==
    wire.pc = "read" => wire.result = [ok |-> TRUE, value |-> wire.value]

\* C31 witness: a request has been read back whose prompt holds a quote, a
\* backslash or a line feed.
C31_Witness ==
    /\ wire.pc = "read"
    /\ wire.value.enum = "DaemonRequest"
    /\ wire.value.type = "GenerateCommand"
    /\ Len(wire.value.prompt) = MaxStr
    /\ \E i \in 1..Len(wire.value.prompt) : wire.value.prompt[i] \in {"\"", "\\", "\n"}
    /\ wire.result.ok

\* ========================================================================
\* Properties: planner and batch executor, continued (SpecBatch)
\* ========================================================================
\* The tasks get_parallel_groups placed.
Placed == UNION {Range(groups[g]) : g \in 1..Len(groups)}

\* A task all of whose dependency chains stay inside the plan's tasks and
\* meet no task that depends on itself.
Placeable(id) ==
    /\ DepReach(id) \subseteq TaskSet
    /\ \A d \in DepReach(id) \cup {id} : d \notin DepReach(d)

\* The tasks in the groups before group k.
Earlier(k) == UNION {Range(groups[g]) : g \in 1..(k - 1)}

\* The level after the groups before k: the tasks not in them whose
\* dependencies all are, in list order.
LevelAfter(k) ==
    SelectSeq(tasks, LAMBDA id : id \notin Earlier(k) /\ DepsOf(Plan, id) \subseteq Earlier(k))

\* C24: get_parallel_groups returns on every plan, after at most one group
\* per task; with parallelization enabled the schedule holds no task twice
\* and holds exactly the tasks whose dependencies can all be placed, so a
\* cyclic, self-referential or dangling dependency truncates it.
C24_TruncatedSchedule ==
    (GroupsComputed /\ can_parallelize /\ tasks # <<>>) =>
        /\ Len(groups) <= Len(tasks)
        /\ \A g \in 1..Len(groups) : groups[g] # <<>>
        /\ Len(Flatten(groups)) = Cardinality(Placed)
        /\ Placed = {id \in TaskSet : Placeable(id)}

\* C24 witness: a schedule was returned that holds some tasks and leaves
\* others out.
C24_Witness ==
    /\ GroupsComputed /\ can_parallelize
    /\ Placed # {}
    /\ Placed # TaskSet
    /\ \E id \in TaskSet : id \in DepReach(id)
    /\ \E id \in TaskSet : ~(DepReach(id) \subseteq TaskSet)

\* C25: with parallelization enabled every group is the whole next level
\* (every not-yet-placed task whose dependencies all lie in earlier groups,
\* in list order) and the schedule ends only when the next level is empty;
\* the chain 1<-0, 2<-1 yields [[0],[1],[2]] and three independent tasks
\* yield one group of three.
C25_GroupsAreLevels ==
    (GroupsComputed /\ can_parallelize /\ tasks # <<>>) =>
        /\ \A k \in 1..Len(groups) : groups[k] = LevelAfter(k)
        /\ LevelAfter(Len(groups) + 1) = <<>>
        /\ (tasks = <<0, 1, 2>> /\ dependencies = {<<1, 0>>, <<2, 1>>})
              => groups = << <<0>>, <<1>>, <<2>> >>
        /\ (tasks = <<0, 1, 2>> /\ dependencies = {})
              => groups = << <<0, 1, 2>> >>

\* C25 witness: the chain of planner.rs's test has been levelled.
C25_Witness ==
    /\ GroupsComputed /\ can_parallelize
    /\ tasks = <<0, 1, 2>>
    /\ dependencies = {<<1, 0>>, <<2, 1>>}
    /\ Len(groups) = 3

\* Tasks being run.
Running == {id \in DOMAIN status : status[id] = "running"}

\* C26: execute takes the sequential path exactly when parallelization is
\* disabled or max_parallel is not greater than 1; on it at most one task
\* runs at a time, and task i of plan.tasks starts only when every task
\* before it has finished and reported, in list order.
C26_SequentialOneAtATime ==
    /\ mode \in {"parallel", "sequential"} =>
          (mode = "sequential" <=> (~can_parallelize \/ max_parallel <= 1))
    /\ mode = "sequential" =>
          /\ Cardinality(Running) <= 1
          /\ \A i \in 1..Len(tasks) :
                /\ i < group_idx => status[tasks[i]] \in {"ok", "failed"}
                /\ i > group_idx => status[tasks[i]] = "pending"
                /\ (i = group_idx /\ pc = "await") => status[tasks[i]] = "running"
                /\ (i = group_idx /\ pc = "next") => status[tasks[i]] = "pending"
          /\ Len(all_results) = group_idx - 1
          /\ \A i \in 1..Len(all_results) : all_results[i].task_id = tasks[i]

\* C26 witness: on the sequential path the second task runs after the
\* first has finished, in a plan that records dependencies.
C26_Witness ==
    /\ mode = "sequential" /\ pc = "await"
    /\ group_idx = 2
    /\ Len(tasks) >= 3
    /\ dependencies # {}

\* C30: for the BatchResult execute returned, failed_tasks is exactly the
\* results with success = false in their order, its length is
\* failure_count, all_succeeded holds iff failure_count = 0; one success and
\* one failure out of two tasks give success_count 1, total 2, rate 50 and
\* one failed-task entry.
C30_FailedTasksAndRate ==
    Returned =>
        LET r == batch_result
            failed == failed_tasks(r)
        IN  /\ \A i \in 1..Len(failed) : ~failed[i].success
            /\ Len(failed) = r.failure_count
            /\ {x.task_id : x \in Range(failed)} =
                  {x.task_id : x \in {y \in Range(r.task_results) : ~y.success}}
            /\ all_succeeded(r) <=> r.failure_count = 0
            /\ all_succeeded(r) <=> failed = <<>>
            /\ (r.total = 2 /\ Len(r.task_results) = 2
                  /\ r.task_results[1].success # r.task_results[2].success)
               => /\ r.success_count = 1
                  /\ success_rate(r)[1] = 50 * success_rate(r)[2]
                  /\ Len(failed) = 1

\* C30 witness: execute returned one success and one failure out of two
\* tasks run in parallel.
C30_Witness ==
    /\ Returned
    /\ mode = "parallel"
    /\ batch_result.total = 2
    /\ Len(batch_result.task_results) = 2
    /\ batch_result.success_count = 1
    /\ batch_result.failure_count = 1

\* ========================================================================
\* Properties: response cache, continued (SpecCache)
\* ========================================================================
\* stats().total_hits
TotalHits == stats(cache, max_entries, ttl).total_hits

\* C27: a get that hits adds one to the hit_count of its entry and changes
\* nothing else in the map, so total_hits grows by one; set stores its entry
\* with hit_count 0, so after a set on an empty cache total_hits is 0 and
\* after k hitting gets it is k; a cache of one entry reports that entry's
\* hit_count.
C27_HitCount ==
    [][/\ (last'.op = "get" /\ last'.ret # None) =>
             LET key == cache_key(last'.prompt, last'.context)
             IN  /\ DOMAIN cache' = DOMAIN cache
                 /\ cache' = [cache EXCEPT ![key].hit_count = cache[key].hit_count + 1]
                 /\ TotalHits' = TotalHits + 1
       /\ (last'.op = "get" /\ last'.ret = None) =>
             \A k \in DOMAIN cache' : cache'[k] = cache[k]
       /\ last'.op = "set" =>
             /\ cache'[cache_key(last'.prompt, last'.context)].hit_count = 0
             /\ cache = EmptyCache => TotalHits' = 0
       /\ \A k \in DOMAIN cache' :
             DOMAIN cache' = {k} => TotalHits' = cache'[k].hit_count
      ]_vars

\* C27 witness: the cache holds one entry, set after the cache was created
\* over no file, its last get hit, and total_hits is MaxHits, more than
\* one.
C27_Witness ==
    /\ last.op = "get" /\ last.ret # None
    /\ Cardinality(DOMAIN cache) = 1
    /\ cache_file.kind = "missing"
    /\ TotalHits = MaxHits
    /\ TotalHits > 1

\* C28: new on a snapshot file that is missing, unreadable or not JSON
\* returns Ok with an empty cache.
C28_LoadFailureGivesEmptyCache ==
    [][(cache_state = "down" /\ cache_state' = "up"
          /\ cache_file.kind \in {"missing", "unreadable", "corrupt"}) =>
            /\ last'.op = "new" /\ last'.ret = "Ok"
            /\ cache' = EmptyCache
            /\ stats(cache', max_entries', ttl').total_entries = 0
      ]_vars

\* C28 witness: a cache constructed over a file that is not JSON.
C28_Witness ==
    /\ last.op = "new" /\ last.ret = "Ok"
    /\ cache_state = "up"
    /\ cache_file.kind = "corrupt"
    /\ cache_file.content # EmptyCache
    /\ cache = EmptyCache

\* C29: right after clear the map is empty, every get returns nothing, the
\* snapshot file does not exist, and max_entries and the TTL are what they
\* were.
C29_ClearEmptiesMemoryAndFile ==
    [][last'.op = "clear" =>
          /\ cache' = EmptyCache
          /\ stats(cache', max_entries', ttl').total_entries = 0
          /\ \A p \in Prompts, c \in Contexts :
                get(cache', ttl', p, c, now').ret = None
          /\ cache_file'.kind = "missing"
          /\ max_entries' = max_entries
          /\ ttl' = ttl
      ]_vars

\* C29 witness: clear has just removed entries that came from a snapshot
\* file, and the file is gone.
C29_Witness ==
    /\ last.op = "clear"
    /\ Cardinality(last.removed) = 3
    /\ cache = EmptyCache
    /\ cache_file.kind = "missing"

\* ========================================================================
\* Properties: response cache, prewarm and snapshots (SpecCache)
\* ========================================================================
\* The keys prewarm looks up for a context.
PromptKeys(context) ==
    {cache_key(COMMON_PROMPTS[i][1], context) : i \in 1..Len(COMMON_PROMPTS)}

\* The keys with an entry younger than the TTL.
LiveKeys == {k \in DOMAIN cache : within_ttl(cache[k], now, ttl)}

\* C32 (as stated): prewarm inserts only the common prompts that are not
\* cached for the context and returns how many it inserted, and a prewarm
\* right after a prewarm with the same context returns 0 and adds no entry.
C32_PrewarmSkipsCached ==
    [][/\ (last'.op = "prewarm" /\ (last' # last \/ cache' # cache)) =>
             /\ last'.count = Cardinality(PromptKeys(last'.context) \ LiveKeys)
             /\ \A k \in LiveKeys \cap PromptKeys(last'.context) :
                   k \in DOMAIN cache' /\ cache'[k].timestamp = cache[k].timestamp
       /\ (last.op = "prewarm" /\ last'.op = "prewarm"
             /\ last'.context = last.context /\ now' = now) =>
             /\ last'.count = 0
             /\ DOMAIN cache' = DOMAIN cache
      ]_vars

\* There is room for every common prompt of the context next to what the
\* cache holds, so no set of the prewarm evicts.
RoomFor(context) ==
    Cardinality(DOMAIN cache \cup PromptKeys(context)) <= max_entries

\* C32 (amended): the same, for a cache with room for the common prompts.
C32_PrewarmSkipsCachedWithRoom ==
    [][/\ (last'.op = "prewarm" /\ (last' # last \/ cache' # cache)
             /\ RoomFor(last'.context)) =>
             /\ last'.count = Cardinality(PromptKeys(last'.context) \ LiveKeys)
             /\ DOMAIN cache' = DOMAIN cache \cup PromptKeys(last'.context)
             /\ \A k \in LiveKeys \cap PromptKeys(last'.context) :
                   cache'[k].timestamp = cache[k].timestamp
       /\ (last.op = "prewarm" /\ last'.op = "prewarm"
             /\ last'.context = last.context /\ now' = now
             /\ RoomFor(last'.context)) =>
             /\ last'.count = 0
             /\ DOMAIN cache' = DOMAIN cache
      ]_vars

\* C32 witness: a prewarm found every common prompt cached and returned 0;
\* each of them has been hit once, and the cache has room for them.
C32_Witness ==
    /\ last.op = "prewarm"
    /\ last.count = 0
    /\ RoomFor(last.context)
    /\ DOMAIN cache = PromptKeys(last.context)
    /\ \A k \in DOMAIN cache : cache[k].hit_count = 1 /\ cache[k].timestamp = now

\* ========================================================================
\* Properties: planner and batch executor, paths (SpecBatch)
\* ========================================================================
\* C33: when parallelization is disabled or the plan has no tasks,
\* get_parallel_groups returns exactly one group, holding all tasks in
\* plan.tasks order (one empty group for an empty plan), whatever
\* dependencies are recorded.
C33_SequentialFallbackIsOneGroup ==
    /\ (mode = "plan" /\ (~can_parallelize \/ tasks = <<>>)) => groups = <<tasks>>
    /\ (mode = "parallel" /\ tasks = <<>>) => groups = << <<>> >>

\* C33 witness: the schedule of a plan with parallelization disabled whose
\* first task depends on its last and on itself is the one group of all
\* its tasks.
C33_Witness ==
    /\ mode = "plan"
    /\ ~can_parallelize
    /\ Len(tasks) = MaxTasks
    /\ <<tasks[1], tasks[Len(tasks)]>> \in dependencies
    /\ <<tasks[1], tasks[1]>> \in dependencies
    /\ groups = <<tasks>>

Started == {id \in DOMAIN status : status[id] # "pending"}

\* C39: on the sequential path the tasks started are always the first ones
\* of plan.tasks, whatever plan.dependencies holds, so a task listed before
\* one of its dependencies runs before it; on the parallel path a task
\* starts only after each task it depends on has finished.
C39_SequentialIgnoresDependencies ==
    /\ mode = "sequential" =>
          /\ \E k \in 0..Len(tasks) : Started = {tasks[i] : i \in 1..k}
          /\ \A i \in 1..Len(all_results) : all_results[i].task_id = tasks[i]
    /\ mode = "parallel" =>
          \A id \in Started : \A d \in DepsOf(Plan, id) :
              d \in DOMAIN status /\ status[d] \in {"ok", "failed"}

\* C39 witness: on the sequential path with parallelization enabled in the
\* plan, the first task has finished while the second, on which it
\* depends, has not started.
C39_Witness ==
    /\ mode = "sequential"
    /\ can_parallelize
    /\ Len(tasks) >= 2
    /\ <<tasks[1], tasks[2]>> \in dependencies
    /\ status[tasks[1]] \in {"ok", "failed"}
    /\ status[tasks[2]] = "pending"
    /\ Len(all_results) = 1

\* ========================================================================
\* Properties: snapshots (SpecSnapshot)
\* ========================================================================
\* C35: dropping a ResponseCache writes the snapshot of what it holds to
\* the snapshot file; when the write fails, drop ends with a warning and
\* with no error, as it does when the write succeeds.
C35_DropSavesOrWarns ==
    [][(cache_state' = "dropped" /\ cache_state # "dropped") =>
          /\ last'.op = "drop"
          /\ last'.ret \in {"Ok", "Warning"}
          /\ last'.ret = "Ok" =>
                cache_file' = [kind |-> "json", content |-> to_snapshot(cache)]
          /\ last'.ret = "Warning" => cache_file' \in {cache_file, TruncatedFile}
          /\ cache' = cache
      ]_vars

\* C35 witness: a cache of two entries was dropped over a readable snapshot
\* file, the write failed, and drop ended with the warning.
C35_Witness ==
    /\ cache_state = "dropped"
    /\ last.op = "drop"
    /\ last.ret = "Warning"
    /\ Cardinality(DOMAIN cache) = 2
    /\ cache_file.kind = "json"

\* C36: a load_from_disk into a fresh cache after a save_to_disk that
\* succeeded gives the keys that were saved, each with its command and
\* hit_count and with its timestamp cut to whole seconds.
C36_SaveLoadRestores ==
    [][(cache_state' = "loaded" /\ cache_state # "loaded"
          /\ last.op \in {"save", "drop"} /\ last.ret = "Ok") =>
          /\ last'.ret = "Ok"
          /\ DOMAIN cache' = DOMAIN cache
          /\ \A k \in DOMAIN cache :
                /\ cache'[k].command = cache[k].command
                /\ cache'[k].hit_count = cache[k].hit_count
                /\ cache'[k].timestamp = num_seconds(cache[k].timestamp) * TicksPerSecond
      ]_vars

\* C36 witness: a fresh cache has loaded the two entries that were saved,
\* more than max_entries, one of them with MaxHits hits counted.
C36_Witness ==
    /\ cache_state = "loaded"
    /\ last.op = "load" /\ last.ret = "Ok"
    /\ Cardinality(DOMAIN cache) = 2
    /\ Cardinality(DOMAIN cache) > max_entries
    /\ \E k \in DOMAIN cache : cache[k].hit_count = MaxHits
    /\ cache_file = [kind |-> "json", content |-> cache]

\* ========================================================================
\* Properties: response cache, overwriting (SpecCache)
\* ========================================================================
\* The key of the call being made.
CalledKey == cache_key(last'.prompt, last'.context)

\* C37: a set for a key that is present, on a cache holding max_entries
\* entries, still evicts one entry of smallest timestamp before it inserts:
\* if the evicted entry is another key's, that entry is lost and the cache
\* is left with max_entries - 1 entries; in every case the key ends with
\* the new command, hit_count 0 and the timestamp of the call.
C37_OverwriteStillEvicts ==
    [][(/\ last'.op = "set"
        /\ last' # last \/ cache' # cache
        /\ CalledKey \in DOMAIN cache
        /\ Cardinality(DOMAIN cache) = max_entries) =>
          /\ \E k \in OldestKeys(cache) :
                /\ last'.removed = {k}
                /\ k # CalledKey =>
                      /\ k \notin DOMAIN cache'
                      /\ Cardinality(DOMAIN cache') = max_entries - 1
                /\ k = CalledKey => DOMAIN cache' = DOMAIN cache
          /\ cache'[CalledKey] =
                [command |-> last'.command, timestamp |-> now, hit_count |-> 0]
      ]_vars

\* C37 witness: with max_entries = 2, a set for a key that was present
\* evicted the other entry, and the cache holds one entry, the overwritten
\* one, stamped after the clock moved.
C37_Witness ==
    /\ last.op = "set"
    /\ max_entries = 2
    /\ DOMAIN cache = {LastKey}
    /\ \E k \in Keys : k # LastKey /\ last.removed = {k}
    /\ cache[LastKey] = [command |-> last.command, timestamp |-> now, hit_count |-> 0]
    /\ now > 0

\* ========================================================================
\* Properties: daemon, concurrent misses (SpecDaemon)
\* ========================================================================
\* The positions of a handler between its cache miss and its cache.set.
AfterMiss == {"registry_wait", "create", "call", "set_wait", "cache_set"}

\* The cache key of the request of connection h.
KeyOf(h) == cache_key(conns[h].line.prompt, conns[h].line.context)

\* C38: requests for the same uncached pair are not de-duplicated: a
\* handler that missed the cache never looks the cache up again, it reaches
\* its provider call from the registry lock alone, whatever the cache holds
\* by then; its cache.set overwrites what another handler stored, and its
\* answer carries its own command with from_cache = false.
C38_ConcurrentMissesNotDeduplicated ==
    [][\A h \in ConnIds :
          /\ conns[h].hpc \in AfterMiss =>
                conns'[h].hpc \in AfterMiss \cup {"write", "aborted"}
          /\ (conns[h].hpc = "registry_wait" /\ conns'[h].hpc # "registry_wait"
                /\ conns'[h].hpc # "aborted") =>
                /\ conns'[h].hpc = IF conns[h].line.provider \in providers
                                   THEN "call" ELSE "create"
                /\ cache' = cache
          /\ (conns[h].hpc = "cache_set" /\ conns'[h].hpc = "write") =>
                /\ cache'[KeyOf(h)] = CacheEntry(conns[h].command, now)
                /\ conns'[h].response = Success(conns[h].command, FALSE)
      ]_vars

\* C38 witness: two requests for the same uncached pair were both answered
\* with from_cache = false and with different commands, so both invoked
\* the provider; the cache holds the command of one of them.
C38_Witness ==
    \E h1 \in ConnIds, h2 \in ConnIds :
        /\ h1 # h2
        /\ conns[h1].line = conns[h2].line
        /\ conns[h1].hpc = "done" /\ conns[h2].hpc = "done"
        /\ conns[h1].out = <<Success("c1", FALSE)>>
        /\ conns[h2].out = <<Success("c2", FALSE)>>
        /\ cache[KeyOf(h1)].command = "c2"
        /\ cache[KeyOf(h1)].hit_count = 0

\* ========================================================================
\* Properties: SessionPool, failing requests (SpecPool)
\* ========================================================================
\* The cache key of the call just made.
MadeKey == cache_key(Made.prompt, Made.context)

\* C40 (as stated): a GenerateCommand that fails leaves the cache contents
\* unchanged; if it fails on an unknown provider name the registry is
\* unchanged too, and a provider constructed for the request stays resident
\* though its call failed.
C40_FailureLeavesCacheUnchanged ==
    [][(Calls("generate") /\ Made.response.status = "Error") =>
          /\ cache' = cache
          /\ ~Made.invoked => (providers' = providers /\ constructed' = constructed)
          /\ Made.invoked => providers' = providers \cup {Made.provider}
      ]_vars

\* C40 (amended): a GenerateCommand that fails stores nothing and changes
\* no entry; the one change it can make to the cache is that its lookup
\* removes the entry of its own pair when that entry has reached the TTL.
\* The registry is as stated.
C40_FailureStoresNothing ==
    [][(Calls("generate") /\ Made.response.status = "Error") =>
          /\ DOMAIN cache' \subseteq DOMAIN cache
          /\ \A k \in DOMAIN cache' : cache'[k] = cache[k]
          /\ \A k \in DOMAIN cache \ DOMAIN cache' :
                k = MadeKey /\ ~within_ttl(cache[k], now, ttl)
          /\ MadeKey \notin DOMAIN cache'
          /\ ~Made.invoked => (providers' = providers /\ constructed' = constructed)
          /\ Made.invoked => providers' = providers \cup {Made.provider}
      ]_vars

\* C40 witness: the last call failed in the provider it had constructed,
\* which is resident, after its lookup removed the expired entry of its
\* pair from a cache that holds another entry.
C40_Witness ==
    /\ Len(pool_log) = MaxCalls
    /\ pool_log[MaxCalls].op = "generate"
    /\ pool_log[MaxCalls].response.status = "Error"
    /\ pool_log[MaxCalls].invoked
    /\ pool_log[MaxCalls].evicted # {}
    /\ pool_log[MaxCalls].provider \in providers
    /\ constructed[pool_log[MaxCalls].provider] = 1
    /\ \A i \in 1..(MaxCalls - 1) : pool_log[i].provider # pool_log[MaxCalls].provider
    /\ cache # EmptyCache

====
